---- MODULE Spec2Model ----
(***************************************************************************)
(* Model of the Neo4j backup service (src/neo4j-backup): the persisted     *)
(* settings/runtime-state store (config_manager.py), the two task          *)
(* controllers and the HTTP handlers that drive them (api.py), and the     *)
(* backup and restore pipelines as far as they touch shared state          *)
(* (backup.py).                                                            *)
(*                                                                         *)
(* Python values are modelled as options: None is <<>> and a value v is    *)
(* <<v>>, so that a dict can hold None under any key.  A dict is a         *)
(* function from key strings to options.  JSON encoding of such dicts      *)
(* (None, booleans, integers, strings) followed by decoding returns the    *)
(* same dict, so the state file is modelled by the dict it holds.          *)
(*                                                                         *)
(* Time is a clock of abstract ticks; one tick is the resolution of        *)
(* int(time.time()) and of the cron expressions of the model.              *)
(***************************************************************************)
EXTENDS Integers, Sequences, FiniteSets, TLC

VARIABLES
    config,                 \* the state file at CONFIG_PATH: [exists, data]
    crontab,                \* the line of the schedule file at CRONTAB_PATH
    BACKUP_RETENTION_DAYS,  \* backup.BACKUP_RETENTION_DAYS (module global)
    now,                    \* the clock
    bThread, bJobId,        \* controller._thread, controller._job_id
    bw,                     \* the backup worker threads: thread -> locals
    rThread, rJobId,        \* restore_controller._thread, ._job_id
    rw,                     \* the restore worker threads: thread -> locals
    api,                    \* the event loop: the handler in progress
    resp,                   \* the last HTTP response sent
    cronRuns,               \* backup.py processes started by cron, in flight
    calls,                  \* requests the service has accepted so far
    storeOp,                \* history: the last store call made in isolation
    run                     \* one pipeline run looked at alone: its locals and
                            \* the files, objects and database it acts on

vars == <<config, crontab, BACKUP_RETENTION_DAYS, now, bThread, bJobId, bw,
          rThread, rJobId, rw, api, resp, cronRuns, calls, storeOp, run>>

(***************************************************************************)
(* Bounds of the model.                                                    *)
(***************************************************************************)
\* clock readings are 0..MaxClock
MaxClock == 1
\* threads of each controller that may be alive at once
MaxRuns == 2
\* requests sent to the service
MaxCalls == 2
\* backup.py processes cron may have in flight at once
MaxCron == 1

(***************************************************************************)
(* Python values.                                                          *)
(***************************************************************************)
None == <<>>
Some(v) == <<v>>

\* datetime.now().isoformat(): the text of a time.  The service writes these
\* texts to the state file and never reads one back, so the model keeps of
\* them only that they are texts of a time.
isoformat(t) == Some("time")

\* dict.get(key): None when the key is missing
Get(d, k) == IF k \in DOMAIN d THEN d[k] ELSE None

\* dict.update(other)
Update(d, p) == [k \in (DOMAIN d) \cup (DOMAIN p) |-> IF k \in DOMAIN p THEN p[k] ELSE d[k]]

(***************************************************************************)
(* config_manager.py                                                       *)
(***************************************************************************)
DefaultCron == "0 2 * * *"
DefaultRetentionDays == 7

DEFAULT_SETTINGS ==
    [enabled |-> Some(TRUE),
     cron |-> Some(DefaultCron),
     retentionDays |-> Some(DefaultRetentionDays),
     lastRunAt |-> None,
     lastStatus |-> Some("idle"),
     lastBackupId |-> None,
     lastError |-> None,
     restoreStartedAt |-> None,
     restoreCompletedAt |-> None,
     lastRestoreStatus |-> Some("idle"),
     lastRestoreId |-> None,
     lastRestoreError |-> None,
     restoreStatementsApplied |-> None,
     restoreTotalStatements |-> None,
     restorePhase |-> Some("idle"),
     restoreProgress |-> Some(0)]

PERSISTED_KEYS == DOMAIN DEFAULT_SETTINGS

ScheduleKeys == {"enabled", "cron", "retentionDays"}
RuntimeKeys == PERSISTED_KEYS \ ScheduleKeys

\* The cron expressions of the model: the empty string, a malformed
\* expression, the default (daily) and every-minute.
CronExprs == {"", "not a cron", DefaultCron, "* * * * *"}

\* croniter(expr, now) raises ValueError on a malformed expression
CronValid(expr) == expr \in {DefaultCron, "* * * * *"}

\* The times an expression fires at: the clock's tick is a minute, tick 0 is
\* midnight, and the daily expression fires at 02:00, minute 120 of 1440.
CronMatches(expr, t) ==
    IF expr = "* * * * *" THEN TRUE ELSE CronValid(expr) /\ (t % 1440) = 120

\* an iterator that also yields the time it starts from
CronNextFrom(expr, t) ==
    IF expr = "* * * * *" THEN t
    ELSE IF (t % 1440) <= 120 THEN (t - (t % 1440)) + 120
         ELSE (t - (t % 1440)) + 1440 + 120

\* croniter(expr, now).get_next(): the earliest fire time strictly after now
CronNext(expr, t) ==
    IF expr = "* * * * *" THEN t + 1
    ELSE IF (t % 1440) < 120 THEN (t - (t % 1440)) + 120
         ELSE (t - (t % 1440)) + 1440 + 120

\* compute_next_run without its guards and its try: the exception is the result
compute_next_run_unguarded(settings, t) ==
    IF Get(settings, "cron") = None THEN Some("TypeError")
    ELSE IF ~CronValid(Get(settings, "cron")[1]) THEN Some("ValueError")
    ELSE Some(CronNext(Get(settings, "cron")[1], t))

compute_next_run(settings, t) ==
    IF Get(settings, "enabled") = None \/ Get(settings, "enabled") = Some(FALSE) THEN None
    ELSE IF Get(settings, "cron") = None \/ Get(settings, "cron") = Some("") THEN None
    ELSE IF ~CronValid(Get(settings, "cron")[1]) THEN None
    ELSE Some(CronNext(Get(settings, "cron")[1], t))

load_settings(cfg, t) ==
    IF ~cfg.exists THEN DEFAULT_SETTINGS
    ELSE LET merged == Update(DEFAULT_SETTINGS, cfg.data)
         IN  Update(merged, [nextRunAt |-> compute_next_run(merged, t)])

\* a save that writes the dict it is given, whatever its keys
save_everything(settings) == settings

\* save_settings: the payload written to the file
save_payload(settings) == [k \in PERSISTED_KEYS |-> Get(settings, k)]

\* a store whose update replaces the state by the partial instead of merging
update_replace(loaded, partial) == partial

\* update_settings: the dict handed to save_settings
update_current(loaded, partial) == Update(loaded, partial)

\* sync_runtime_with_settings: the value left in backup.BACKUP_RETENTION_DAYS
\* (int(str(None)) raises inside the try and leaves the old value)
sync_retention(payload, old) ==
    IF "retentionDays" \notin DOMAIN payload THEN DEFAULT_SETTINGS["retentionDays"][1]
    ELSE IF payload["retentionDays"] = None THEN old
    ELSE payload["retentionDays"][1]

DisabledLine == "# Backups disabled"

\* apply_cron_schedule: the line written to the schedule file
cron_line(settings) ==
    IF Get(settings, "enabled") # None /\ Get(settings, "enabled") # Some(FALSE)
       /\ Get(settings, "cron") # None /\ Get(settings, "cron") # Some("")
    THEN <<Get(settings, "cron")[1], "BACKUP_COMMAND">>
    ELSE <<DisabledLine>>

(***************************************************************************)
(* backup.py: perform_backup, as far as the controller sees it.  The run   *)
(* shares no state with the other threads, so it is one step whose result  *)
(* is decided by the step that fails.                                      *)
(***************************************************************************)
BACKUP_PREFIX == "neo4j-backup"

\* The steps of perform_backup that can fail: those that return a failed
\* result, and those whose exception nobody catches (mkdir, line 444; stat,
\* line 470; unlink in the finally, line 489).
BackupReturns == {"validate", "verify", "export", "compress", "upload"}
BackupRaises == {"mkdir", "stat", "unlink"}
BackupFailPoints == {"none"} \cup BackupReturns \cup BackupRaises

BackupMessage(f) ==
    CASE f = "validate" -> "Configuration validation failed, aborting"
      [] f = "verify" -> "R2 connection verification failed, aborting"
      [] f = "export" -> "Backup failed at export stage"
      [] f = "compress" -> "Backup failed at compression stage"
      [] f = "upload" -> "Backup failed at upload stage"

\* perform_backup: the BackupResult returned when step f fails at time t
perform_backup(f, t) ==
    IF f = "none"
    THEN [success |-> TRUE, remote_key |-> Some(<<BACKUP_PREFIX, t>>), error |-> None]
    ELSE [success |-> FALSE, remote_key |-> None, error |-> Some(BackupMessage(f))]

NoResult == [success |-> FALSE, remote_key |-> None, error |-> None]

(***************************************************************************)
(* api.py: BackupTaskController                                            *)
(***************************************************************************)
Threads == 1..MaxRuns

NoDict == [none |-> None]

UnbornBackup == [pc |-> "unborn", payload |-> NoDict, result |-> NoResult]

\* Thread.is_alive(): started and not yet ended
BackupAlive(t) == bw[t].pc \notin {"unborn", "dead"}

\* a running flag that looks at _thread only, not at is_alive()
Backup_thread_set == bThread # None

\* BackupTaskController.is_running
Backup_is_running == bThread # None /\ BackupAlive(bThread[1])

\* BackupTaskController.current_job_id
Backup_current_job_id == IF Backup_is_running THEN bJobId ELSE None

\* a backup trigger without the guard
Backup_trigger_unguarded == FALSE

\* BackupTaskController.trigger: the guard that raises RuntimeError
Backup_trigger_refused == Backup_is_running

\* the thread object trigger creates.  Threads that are not alive are alike,
\* so the model gives the new thread the first name no live thread has.
FreshBackup(t) == ~BackupAlive(t) /\ \A u \in Threads : u < t => BackupAlive(u)

\* update_settings up to the lock of save_settings: load_settings,
\* current.update(partial), and the payload save_settings builds (line 66)
Loaded(w, partial, next) ==
    [w EXCEPT !.pc = next,
              !.payload = save_payload(update_current(load_settings(config, now), partial))]

\* a thread that has ended: its locals are gone
Dead(w) == [w EXCEPT !.pc = "dead", !.payload = NoDict, !.result = NoResult]

\* save_settings from the lock on: the file is written, and
\* sync_runtime_with_settings runs
Saved(w) ==
    /\ config' = [exists |-> TRUE, data |-> w.payload]
    /\ BACKUP_RETENTION_DAYS' = sync_retention(w.payload, BACKUP_RETENTION_DAYS)

\* _run_backup, line 147: update_runtime_state(lastStatus='running', ...)
BackupStartLoad(t) ==
    /\ bw[t].pc = "b_start_load"
    /\ \/ bw' = [bw EXCEPT ![t] = Loaded(bw[t],
                    [lastStatus |-> Some("running"), lastRunAt |-> isoformat(now),
                     lastBackupId |-> None, lastError |-> None], "b_start_save")]
       \/ bw' = [bw EXCEPT ![t] = Dead(bw[t])]
    /\ UNCHANGED <<config, crontab, BACKUP_RETENTION_DAYS, now, bThread, bJobId,
                   rThread, rJobId, rw, api, resp, cronRuns, calls, storeOp, run>>

\* a save step of a backup worker: written (and the reload may then raise),
\* or not written because the write raised
BackupSave(t, at, next) ==
    /\ bw[t].pc = at
    /\ \/ /\ Saved(bw[t])
          /\ \/ bw' = [bw EXCEPT ![t] = [bw[t] EXCEPT !.pc = next, !.payload = NoDict]]
             \/ bw' = [bw EXCEPT ![t] = Dead(bw[t])]
       \/ /\ bw' = [bw EXCEPT ![t] = Dead(bw[t])]
          /\ UNCHANGED <<config, BACKUP_RETENTION_DAYS>>
    /\ UNCHANGED <<crontab, now, bThread, bJobId, rThread, rJobId, rw, api, resp,
                   cronRuns, calls, storeOp, run>>

BackupStartSave(t) == BackupSave(t, "b_start_save", "b_pipeline")

\* _run_backup, line 149: result = perform_backup()
BackupPipeline(t) ==
    /\ bw[t].pc = "b_pipeline"
    /\ \E f \in BackupFailPoints :
         IF f \in BackupRaises
         THEN bw' = [bw EXCEPT ![t] = Dead(bw[t])]
         ELSE bw' = [bw EXCEPT ![t] = [bw[t] EXCEPT !.pc = "b_final_load",
                                                  !.result = perform_backup(f, now)]]
    /\ UNCHANGED <<config, crontab, BACKUP_RETENTION_DAYS, now, bThread, bJobId,
                   rThread, rJobId, rw, api, resp, cronRuns, calls, storeOp, run>>

\* a final status write of the status and the time only
backup_final_status(result, t) ==
    [lastStatus |-> Some(IF result.success THEN "completed" ELSE "failed"),
     lastRunAt |-> isoformat(t)]

\* _run_backup, lines 151-164: the partial of the final status write
backup_final_partial(result, t) ==
    IF result.success
    THEN [lastStatus |-> Some("completed"), lastRunAt |-> isoformat(t),
          lastBackupId |-> result.remote_key, lastError |-> None]
    ELSE [lastStatus |-> Some("failed"), lastRunAt |-> isoformat(t),
          lastError |-> result.error]

BackupFinalLoad(t) ==
    /\ bw[t].pc = "b_final_load"
    /\ \/ bw' = [bw EXCEPT ![t] = Loaded(bw[t], backup_final_partial(bw[t].result, now),
                                          "b_final_save")]
       \/ bw' = [bw EXCEPT ![t] = Dead(bw[t])]
    /\ UNCHANGED <<config, crontab, BACKUP_RETENTION_DAYS, now, bThread, bJobId,
                   rThread, rJobId, rw, api, resp, cronRuns, calls, storeOp, run>>

BackupFinalSave(t) == BackupSave(t, "b_final_save", "b_clear")

\* _run_backup, lines 166-168: under the lock, forget the thread and the job
BackupClear(t) ==
    /\ bw[t].pc = "b_clear"
    /\ bThread' = None
    /\ bJobId' = None
    /\ bw' = [bw EXCEPT ![t] = Dead(bw[t])]
    /\ UNCHANGED <<config, crontab, BACKUP_RETENTION_DAYS, now, rThread, rJobId, rw,
                   api, resp, cronRuns, calls, storeOp, run>>

(***************************************************************************)
(* api.py: RestoreTaskController, and backup.py: perform_restore.  The     *)
(* restore pipeline writes status from inside, so it is modelled step by   *)
(* step; every update_runtime_state is a load step and a save step.        *)
(***************************************************************************)
ProgressEvery == 500

NoRestoreResult == [success |-> FALSE, statements_applied |-> None, error |-> None]

UnbornRestore ==
    [pc |-> "unborn", payload |-> NoDict, key |-> "",
     total |-> 0, applied |-> 0, exc |-> "", result |-> NoRestoreResult]

DeadRestore == [UnbornRestore EXCEPT !.pc = "dead"]

RestoreAlive(t) == rw[t].pc \notin {"unborn", "dead"}

\* RestoreTaskController.is_running
Restore_is_running == rThread # None /\ RestoreAlive(rThread[1])

\* a current_job_id whose test is inverted
Restore_stale_job_id == IF Restore_is_running THEN None ELSE rJobId

\* RestoreTaskController.current_job_id
Restore_current_job_id == IF Restore_is_running THEN rJobId ELSE None

\* a restore trigger without the guard
Restore_trigger_unguarded == FALSE

\* RestoreTaskController.trigger: the guard that raises RuntimeError
Restore_trigger_refused == Restore_is_running

FreshRestore(t) == ~RestoreAlive(t) /\ \A u \in Threads : u < t => RestoreAlive(u)

\* where an exception raised at a step goes: to the except clause of
\* perform_restore (line 642) or out of the thread
Raised(w, to) ==
    IF to = "dead" THEN DeadRestore
    ELSE [w EXCEPT !.pc = to, !.payload = NoDict, !.exc = "status write"]

RestoreFrame == <<crontab, now, bThread, bJobId, bw, rThread, rJobId, api, resp,
                  cronRuns, calls, storeOp, run>>

\* update_runtime_state of a restore worker, first half
RestoreLoad(t, at, partial, next, onRaise) ==
    /\ rw[t].pc = at
    /\ \/ rw' = [rw EXCEPT ![t] = Loaded(rw[t], partial, next)]
       \/ rw' = [rw EXCEPT ![t] = Raised(rw[t], onRaise)]
    /\ UNCHANGED <<config, BACKUP_RETENTION_DAYS>>
    /\ UNCHANGED RestoreFrame

\* update_runtime_state of a restore worker, second half
RestoreSave(t, at, after, onRaise) ==
    /\ rw[t].pc = at
    /\ \/ /\ Saved(rw[t])
          /\ \/ rw' = [rw EXCEPT ![t] = [after EXCEPT !.payload = NoDict]]
             \/ rw' = [rw EXCEPT ![t] = Raised(rw[t], onRaise)]
       \/ /\ rw' = [rw EXCEPT ![t] = Raised(rw[t], onRaise)]
          /\ UNCHANGED <<config, BACKUP_RETENTION_DAYS>>
    /\ UNCHANGED RestoreFrame

At(w, next) == [w EXCEPT !.pc = next]

\* _run_restore, lines 201-211
restore_start_partial(key, t) ==
    [lastRestoreStatus |-> Some("running"), restoreStartedAt |-> isoformat(t),
     restoreCompletedAt |-> None, lastRestoreId |-> Some(key),
     lastRestoreError |-> None, restoreStatementsApplied |-> None,
     restoreTotalStatements |-> None, restorePhase |-> Some("downloading"),
     restoreProgress |-> Some(0)]

RestoreStartLoad(t) ==
    RestoreLoad(t, "r_start_load", restore_start_partial(rw[t].key, now), "r_start_save", "dead")

RestoreStartSave(t) == RestoreSave(t, "r_start_save", At(rw[t], "r_download"), "dead")

\* perform_restore, lines 569-594: what ends the steps up to the download
DownloadOutcomes == {"ok", "validate", "verify", "mkdir", "client_error", "other_error"}

DownloadMessage(o) ==
    CASE o = "validate" -> "Configuration validation failed, aborting restore"
      [] o = "verify" -> "R2 connection verification failed, aborting restore"
      [] o = "client_error" -> "Failed to download backup"

RestoreDownload(t) ==
    /\ rw[t].pc = "r_download"
    /\ \E o \in DownloadOutcomes :
         rw' = [rw EXCEPT ![t] =
                  IF o = "ok" THEN At(rw[t], "r_clearing_load")
                  ELSE IF o \in {"mkdir", "other_error"} THEN DeadRestore
                  ELSE [rw[t] EXCEPT !.pc = "r_final_load",
                          !.result = [success |-> FALSE, statements_applied |-> None,
                                      error |-> Some(DownloadMessage(o))]]]
    /\ UNCHANGED <<config, BACKUP_RETENTION_DAYS>>
    /\ UNCHANGED RestoreFrame

\* perform_restore, line 590, inside the try that catches ClientError only
RestoreClearingLoad(t) ==
    RestoreLoad(t, "r_clearing_load",
                [restorePhase |-> Some("clearing"), restoreProgress |-> Some(0)],
                "r_clearing_save", "dead")

RestoreClearingSave(t) == RestoreSave(t, "r_clearing_save", At(rw[t], "r_parse"), "dead")

\* the script lengths of the model: a script that ends before the first
\* progress write, and one that ends just after it
Totals == {1, ProgressEvery + 1}

\* perform_restore, lines 599-618: decompress, open the driver, parse
RestoreParse(t) ==
    /\ rw[t].pc = "r_parse"
    /\ \/ \E n \in Totals :
            rw' = [rw EXCEPT ![t] = [rw[t] EXCEPT !.pc = "r_replaying_load", !.total = n]]
       \/ rw' = [rw EXCEPT ![t] = [rw[t] EXCEPT !.pc = "r_exc_load", !.exc = "parse"]]
    /\ UNCHANGED <<config, BACKUP_RETENTION_DAYS>>
    /\ UNCHANGED RestoreFrame

\* perform_restore, lines 619-623
RestoreReplayingLoad(t) ==
    RestoreLoad(t, "r_replaying_load",
                [restorePhase |-> Some("replaying"),
                 restoreTotalStatements |-> Some(rw[t].total),
                 restoreProgress |-> Some(0)],
                "r_replaying_save", "r_exc_load")

RestoreReplayingSave(t) ==
    RestoreSave(t, "r_replaying_save", At(rw[t], "r_drop"), "r_exc_load")

\* perform_restore, lines 625-627: _drop_schema_and_data
RestoreDrop(t) ==
    /\ rw[t].pc = "r_drop"
    /\ \/ rw' = [rw EXCEPT ![t] = At(rw[t], "r_replay")]
       \/ rw' = [rw EXCEPT ![t] = [rw[t] EXCEPT !.pc = "r_exc_load", !.exc = "drop"]]
    /\ UNCHANGED <<config, BACKUP_RETENTION_DAYS>>
    /\ UNCHANGED RestoreFrame

\* a replay loop that writes no progress before the end of the script
NextStopAtEnd(a, n) == n

\* the statement count at which the replay loop next leaves the loop body's
\* straight line: the next multiple of ProgressEvery, or the end of the script
NextStop(a, n) ==
    LET ckpt == ((a \div ProgressEvery) + 1) * ProgressEvery
    IN  IF ckpt < n THEN ckpt ELSE n

\* the statements of a..stop-1 the model lets fail: the first and the last
FailPositions(a, stop) == {a, stop - 1}

\* the counts short of stop at which the model looks at the running loop:
\* the last one
PausePositions(a, stop) == {stop - 1} \ {a}

\* perform_restore, lines 629-636: the replay loop up to the next progress
\* write, the first failing statement, the end of the script, or a count at
\* which the model looks at it
RestoreReplay(t) ==
    /\ rw[t].pc = "r_replay"
    /\ LET a == rw[t].applied
           n == rw[t].total
           stop == NextStop(a, n)
       IN  IF a = n
           THEN rw' = [rw EXCEPT ![t] = At(rw[t], "r_done_load")]
           ELSE \/ rw' = [rw EXCEPT ![t] =
                            [rw[t] EXCEPT !.applied = stop,
                               !.pc = IF stop % ProgressEvery = 0 THEN "r_ckpt_load"
                                      ELSE "r_done_load"]]
                \/ \E j \in PausePositions(a, stop) :
                     rw' = [rw EXCEPT ![t] = [rw[t] EXCEPT !.applied = j]]
                \/ \E j \in FailPositions(a, stop) :
                     rw' = [rw EXCEPT ![t] = [rw[t] EXCEPT !.applied = j, !.pc = "r_exc_load",
                                                           !.exc = "statement"]]
    /\ UNCHANGED <<config, BACKUP_RETENTION_DAYS>>
    /\ UNCHANGED RestoreFrame

\* perform_restore, lines 632-634
RestoreCkptLoad(t) ==
    RestoreLoad(t, "r_ckpt_load", [restoreProgress |-> Some(rw[t].applied)],
                "r_ckpt_save", "r_exc_load")

RestoreCkptSave(t) == RestoreSave(t, "r_ckpt_save", At(rw[t], "r_replay"), "r_exc_load")

\* perform_restore, lines 636-640: the write after the loop, then the result
RestoreDoneLoad(t) ==
    RestoreLoad(t, "r_done_load", [restoreProgress |-> Some(rw[t].applied)],
                "r_done_save", "r_exc_load")

RestoreDoneSave(t) ==
    RestoreSave(t, "r_done_save",
                [rw[t] EXCEPT !.pc = "r_final_load",
                   !.result = [success |-> TRUE,
                               statements_applied |-> Some(rw[t].applied),
                               error |-> None]],
                "r_exc_load")

\* perform_restore, line 643: f'Restore failed: {error}'
RestoreMessage(exc) ==
    CASE exc = "parse" -> "Restore failed: parse"
      [] exc = "drop" -> "Restore failed: drop"
      [] exc = "statement" -> "Restore failed: statement"
      [] exc = "status write" -> "Restore failed: status write"

\* perform_restore, lines 642-646: except Exception as error
RestoreExcLoad(t) ==
    RestoreLoad(t, "r_exc_load", [restoreProgress |-> Some(rw[t].applied)],
                "r_exc_save", "dead")

RestoreExcSave(t) ==
    RestoreSave(t, "r_exc_save",
                [rw[t] EXCEPT !.pc = "r_final_load", !.exc = "",
                   !.result = [success |-> FALSE,
                               statements_applied |-> Some(rw[t].applied),
                               error |-> Some(RestoreMessage(rw[t].exc))]],
                "dead")

\* a final write that resets the progress
AlwaysZero(v) == Some(0)

\* `result.statements_applied or 0`
OrZero(v) == IF v = None \/ v = Some(0) THEN Some(0) ELSE v

\* _run_restore, lines 214-232: the partial of the final status write
restore_final_partial(result, t) ==
    IF result.success
    THEN [lastRestoreStatus |-> Some("completed"), restoreCompletedAt |-> isoformat(t),
          restoreStatementsApplied |-> result.statements_applied,
          restorePhase |-> Some("completed"),
          restoreProgress |-> OrZero(result.statements_applied)]
    ELSE [lastRestoreStatus |-> Some("failed"), restoreCompletedAt |-> isoformat(t),
          lastRestoreError |-> result.error,
          restoreStatementsApplied |-> result.statements_applied,
          restorePhase |-> Some("failed"),
          restoreProgress |-> OrZero(result.statements_applied)]

RestoreFinalLoad(t) ==
    RestoreLoad(t, "r_final_load", restore_final_partial(rw[t].result, now),
                "r_final_save", "dead")

RestoreFinalSave(t) == RestoreSave(t, "r_final_save", At(rw[t], "r_clear"), "dead")

\* _run_restore, lines 234-236
RestoreClear(t) ==
    /\ rw[t].pc = "r_clear"
    /\ rThread' = None
    /\ rJobId' = None
    /\ rw' = [rw EXCEPT ![t] = DeadRestore]
    /\ UNCHANGED <<config, crontab, BACKUP_RETENTION_DAYS, now, bThread, bJobId, bw,
                   api, resp, cronRuns, calls, storeOp, run>>

(***************************************************************************)
(* api.py: the HTTP handlers.  They are coroutines without an await, so    *)
(* the event loop runs one at a time; the worker threads run beside them.  *)
(***************************************************************************)
Idle == [pc |-> "idle", key |-> ""]

\* the event loop takes the next request
Accept == calls < MaxCalls /\ calls' = calls + 1

Response(op, status, job) == [op |-> op, status |-> status, job |-> job]

BackupKeys == {"neo4j-backup/neo4j_2024-01-01_00-00-00.cypher.gz"}

\* trigger_backup, lines 266-273, with BackupTaskController.trigger
ApiTriggerBackup ==
    /\ api.pc = "idle"
    /\ Accept
    /\ IF Backup_trigger_refused
       THEN /\ resp' = Response("trigger_backup", 409, None)
            /\ UNCHANGED <<bThread, bJobId, bw>>
       ELSE \E t \in Threads :
              /\ FreshBackup(t)
              /\ bThread' = Some(t)
              /\ bJobId' = Some(<<"manual", now>>)
              /\ bw' = [bw EXCEPT ![t] = At(UnbornBackup, "b_start_load")]
              /\ resp' = Response("trigger_backup", 200, Some(<<"manual", now>>))
    /\ UNCHANGED <<config, crontab, BACKUP_RETENTION_DAYS, now, rThread, rJobId, rw,
                   api, cronRuns, storeOp, run>>

\* RestoreTaskController.trigger, lines 184-198, and the response to it
RestoreTrigger(key) ==
    IF Restore_trigger_refused
    THEN /\ resp' = Response("trigger_restore", 409, None)
         /\ UNCHANGED <<rThread, rJobId, rw>>
    ELSE \E t \in Threads :
           /\ FreshRestore(t)
           /\ rThread' = Some(t)
           /\ rJobId' = Some(<<"restore", now>>)
           /\ rw' = [rw EXCEPT ![t] = [UnbornRestore EXCEPT !.pc = "r_start_load", !.key = key]]
           /\ resp' = Response("trigger_restore", 200, Some(<<"restore", now>>))

\* trigger_restore, line 278: controller.is_running() without the lock reads
\* _thread twice; this is the first read (`self._thread is not None`)
ApiTriggerRestore(key) ==
    /\ api.pc = "idle"
    /\ Accept
    /\ IF bThread = None
       THEN RestoreTrigger(key) /\ UNCHANGED api
       ELSE /\ api' = [pc |-> "restore_is_alive", key |-> key]
            /\ UNCHANGED <<rThread, rJobId, rw, resp>>
    /\ UNCHANGED <<config, crontab, BACKUP_RETENTION_DAYS, now, bThread, bJobId, bw,
                   cronRuns, storeOp, run>>

\* a restore handler that does not ask the backup controller
trigger_restore_unchecked == FALSE

\* trigger_restore, lines 278-279: the answer of the second read that refuses
trigger_restore_refused == BackupAlive(bThread[1])

\* trigger_restore, lines 278-286: the second read (`self._thread.is_alive()`),
\* which raises AttributeError when the worker has cleared _thread meanwhile
ApiTriggerRestoreAlive ==
    /\ api.pc = "restore_is_alive"
    /\ api' = Idle
    /\ IF bThread = None
       THEN resp' = Response("trigger_restore", 500, None) /\ UNCHANGED <<rThread, rJobId, rw>>
       ELSE IF trigger_restore_refused
       THEN resp' = Response("trigger_restore", 409, None) /\ UNCHANGED <<rThread, rJobId, rw>>
       ELSE RestoreTrigger(api.key)
    /\ UNCHANGED <<config, crontab, BACKUP_RETENTION_DAYS, now, bThread, bJobId, bw,
                   cronRuns, calls, storeOp, run>>

\* the bodies of PUT /api/settings the model sends
PayloadCrons == {"", "* * * * *"}
PayloadRetention == {30}
UpdatePayloads ==
    {[enabled |-> Some(e), cron |-> Some(c), retentionDays |-> Some(d)] :
        e \in BOOLEAN, c \in PayloadCrons, d \in PayloadRetention}

\* update_settings, lines 257-261: save_settings of the three fields, up to
\* the write of the file
ApiUpdateSettings(payload) ==
    /\ api.pc = "idle"
    /\ Accept
    /\ config' = [exists |-> TRUE, data |-> save_payload(payload)]
    /\ BACKUP_RETENTION_DAYS' = sync_retention(save_payload(payload), BACKUP_RETENTION_DAYS)
    /\ api' = [pc |-> "update_reload", key |-> ""]
    /\ UNCHANGED <<crontab, now, bThread, bJobId, bw, rThread, rJobId, rw, resp,
                   cronRuns, storeOp, run>>

\* BackupSettingsModel(**settings): the fields that must not be None
settings_model_valid(settings) ==
    \A k \in {"enabled", "cron", "retentionDays", "lastStatus", "lastRestoreStatus",
              "restorePhase", "restoreProgress"} : Get(settings, k) # None

\* update_settings, lines 257-263: the load_settings that ends save_settings,
\* apply_cron_schedule and the response
ApiUpdateReload ==
    /\ api.pc = "update_reload"
    /\ LET updated == load_settings(config, now)
       IN  /\ crontab' = cron_line(updated)
           /\ resp' = Response("update_settings",
                               IF settings_model_valid(updated) THEN 200 ELSE 500, None)
    /\ api' = Idle
    /\ UNCHANGED <<config, BACKUP_RETENTION_DAYS, now, bThread, bJobId, bw, rThread,
                   rJobId, rw, cronRuns, calls, storeOp, run>>

(***************************************************************************)
(* The schedule: cron reads the line apply_cron_schedule wrote and starts  *)
(* BACKUP_COMMAND, a process of its own running backup.py's __main__,      *)
(* which calls perform_backup().                                           *)
(***************************************************************************)
CronStart ==
    /\ Len(crontab) = 2
    /\ CronValid(crontab[1])
    /\ CronMatches(crontab[1], now)
    /\ cronRuns < MaxCron
    /\ cronRuns' = cronRuns + 1
    /\ UNCHANGED <<config, crontab, BACKUP_RETENTION_DAYS, now, bThread, bJobId, bw,
                   rThread, rJobId, rw, api, resp, calls, storeOp, run>>

\* __main__, lines 707-718: perform_backup returns or raises, the process exits
CronExit ==
    /\ cronRuns > 0
    /\ cronRuns' = cronRuns - 1
    /\ UNCHANGED <<config, crontab, BACKUP_RETENTION_DAYS, now, bThread, bJobId, bw,
                   rThread, rJobId, rw, api, resp, calls, storeOp, run>>

Tick ==
    /\ now < MaxClock
    /\ now' = now + 1
    /\ UNCHANGED <<config, crontab, BACKUP_RETENTION_DAYS, bThread, bJobId, bw,
                   rThread, rJobId, rw, api, resp, cronRuns, calls, storeOp, run>>

(***************************************************************************)
(* config_manager.py called by one thread with no other writer: the state  *)
(* file may be absent, hold the defaults, hold what an earlier version     *)
(* wrote (no restore keys), or hold the result of earlier calls.           *)
(***************************************************************************)
OldKeys == {"enabled", "cron", "retentionDays", "lastRunAt", "lastStatus",
            "lastBackupId", "lastError"}

StoreFiles ==
    {[exists |-> FALSE, data |-> [none |-> None]],
     [exists |-> TRUE, data |-> save_payload(DEFAULT_SETTINGS)],
     [exists |-> TRUE, data |-> [k \in OldKeys |-> DEFAULT_SETTINGS[k]]],
     [exists |-> TRUE,
      data |-> save_payload([enabled |-> Some(FALSE), cron |-> Some(""),
                             retentionDays |-> Some(30)])]}

\* the keyword arguments of the update_settings calls of the model
StorePartials ==
    {[lastStatus |-> Some("running"), lastRunAt |-> isoformat(0),
      lastBackupId |-> None, lastError |-> None],
     backup_final_partial(perform_backup("none", 0), 0),
     backup_final_partial(perform_backup("upload", 0), 0),
     [restorePhase |-> Some("clearing"), restoreProgress |-> Some(0)],
     [restoreProgress |-> Some(ProgressEvery)],
     [enabled |-> Some(FALSE)],
     [cron |-> Some("* * * * *"), retentionDays |-> Some(30)]}

\* update_settings, lines 74-77: load, update, save, and the state returned
StoreUpdate(partial) ==
    /\ storeOp' = [op |-> "update_settings", partial |-> partial,
                   before |-> load_settings(config, now)]
    /\ config' = [exists |-> TRUE,
                  data |-> save_payload(update_current(load_settings(config, now), partial))]
    /\ BACKUP_RETENTION_DAYS' =
         sync_retention(save_payload(update_current(load_settings(config, now), partial)),
                        BACKUP_RETENTION_DAYS)
    /\ UNCHANGED <<crontab, now, bThread, bJobId, bw, rThread, rJobId, rw, api, resp,
                   cronRuns, calls, run>>

(***************************************************************************)
(* The service after startup_event: ensure_config has written the defaults *)
(* and apply_cron_schedule the line for them.                              *)
(***************************************************************************)
NoStoreOp == [op |-> "none", partial |-> NoDict, before |-> NoDict]

\* no pipeline run is looked at alone
NoRun == [op |-> "none"]

Init ==
    /\ config = [exists |-> TRUE, data |-> save_payload(DEFAULT_SETTINGS)]
    /\ crontab = cron_line(DEFAULT_SETTINGS)
    /\ BACKUP_RETENTION_DAYS = DefaultRetentionDays
    /\ now = 0
    /\ bThread = None
    /\ bJobId = None
    /\ bw = [t \in Threads |-> UnbornBackup]
    /\ rThread = None
    /\ rJobId = None
    /\ rw = [t \in Threads |-> UnbornRestore]
    /\ api = Idle
    /\ resp = Response("none", 0, None)
    /\ cronRuns = 0
    /\ calls = 0
    /\ storeOp = NoStoreOp
    /\ run = NoRun

BackupWorker(t) ==
    \/ BackupStartLoad(t)
    \/ BackupStartSave(t)
    \/ BackupPipeline(t)
    \/ BackupFinalLoad(t)
    \/ BackupFinalSave(t)
    \/ BackupClear(t)

RestoreWorker(t) ==
    \/ RestoreStartLoad(t)
    \/ RestoreStartSave(t)
    \/ RestoreDownload(t)
    \/ RestoreClearingLoad(t)
    \/ RestoreClearingSave(t)
    \/ RestoreParse(t)
    \/ RestoreReplayingLoad(t)
    \/ RestoreReplayingSave(t)
    \/ RestoreDrop(t)
    \/ RestoreReplay(t)
    \/ RestoreCkptLoad(t)
    \/ RestoreCkptSave(t)
    \/ RestoreDoneLoad(t)
    \/ RestoreDoneSave(t)
    \/ RestoreExcLoad(t)
    \/ RestoreExcSave(t)
    \/ RestoreFinalLoad(t)
    \/ RestoreFinalSave(t)
    \/ RestoreClear(t)

\* The jobs: the triggers of both kinds and the worker threads they start,
\* all within one reading of the clock.
Next ==
    \/ ApiTriggerBackup
    \/ \E key \in BackupKeys : ApiTriggerRestore(key)
    \/ ApiTriggerRestoreAlive
    \/ \E t \in Threads : BackupWorker(t)
    \/ \E t \in Threads : RestoreWorker(t)

Spec == Init /\ [][Next]_vars

\* The operator and the schedule: updates of the schedule settings, cron
\* acting on the schedule file, and manual backups beside them, as the
\* clock advances.
NextOps ==
    \/ \E payload \in UpdatePayloads : ApiUpdateSettings(payload)
    \/ ApiUpdateReload
    \/ ApiTriggerBackup
    \/ \E t \in Threads : BackupWorker(t)
    \/ CronStart
    \/ CronExit
    \/ Tick

SpecOps == Init /\ [][NextOps]_vars

\* The three writers of the state file: both jobs and the operator's
\* updates, within one reading of the clock.
SpecWriters ==
    /\ Init
    /\ [][\/ Next
          \/ \E payload \in UpdatePayloads : ApiUpdateSettings(payload)
          \/ ApiUpdateReload]_vars

\* The store alone, from any of the state files of the model.
InitStore ==
    /\ config \in StoreFiles
    /\ crontab = cron_line(DEFAULT_SETTINGS)
    /\ BACKUP_RETENTION_DAYS = DefaultRetentionDays
    /\ now = 0
    /\ bThread = None
    /\ bJobId = None
    /\ bw = [t \in Threads |-> UnbornBackup]
    /\ rThread = None
    /\ rJobId = None
    /\ rw = [t \in Threads |-> UnbornRestore]
    /\ api = Idle
    /\ resp = Response("none", 0, None)
    /\ cronRuns = 0
    /\ calls = 0
    /\ storeOp = NoStoreOp
    /\ run = NoRun

\* Restores alone: no backup job, no operator update, so that the restore
\* worker is the only writer of the state file.
SpecRestore ==
    /\ Init
    /\ [][\/ \E key \in BackupKeys : ApiTriggerRestore(key)
          \/ \E t \in Threads : RestoreWorker(t)]_vars

NextStore == \E partial \in StorePartials : StoreUpdate(partial)

SpecStore == InitStore /\ [][NextStore]_vars

(***************************************************************************)
(* save_settings and update_settings with dicts that hold more than the    *)
(* known keys: the state load_settings returned (nextRunAt attached), a    *)
(* key no version knows, and a state file that was written with one.       *)
(***************************************************************************)
UnknownKey == [legacyKey |-> Some("legacy")]

SaveFiles ==
    StoreFiles \cup
        {[exists |-> TRUE, data |-> Update(save_payload(DEFAULT_SETTINGS), UnknownKey)]}

\* what save_settings is given: the defaults (ensure_config), the three
\* keys of PUT /api/settings, a loaded state, and dicts with an unknown key
SaveInputs ==
    {DEFAULT_SETTINGS,
     [enabled |-> Some(FALSE), cron |-> Some("* * * * *"), retentionDays |-> Some(30)],
     load_settings([exists |-> TRUE, data |-> save_payload(DEFAULT_SETTINGS)], 0),
     Update(load_settings([exists |-> TRUE, data |-> save_payload(DEFAULT_SETTINGS)], 0),
            UnknownKey),
     UnknownKey}

\* save_settings, lines 64-71, called with a dict of its own
StoreSave(settings) ==
    /\ storeOp' = [op |-> "save_settings", partial |-> settings,
                   before |-> load_settings(config, now)]
    /\ config' = [exists |-> TRUE, data |-> save_payload(settings)]
    /\ BACKUP_RETENTION_DAYS' = sync_retention(save_payload(settings), BACKUP_RETENTION_DAYS)
    /\ UNCHANGED <<crontab, now, bThread, bJobId, bw, rThread, rJobId, rw, api, resp,
                   cronRuns, calls, run>>

InitSave ==
    /\ config \in SaveFiles
    /\ crontab = cron_line(DEFAULT_SETTINGS)
    /\ BACKUP_RETENTION_DAYS = DefaultRetentionDays
    /\ now = 0
    /\ bThread = None
    /\ bJobId = None
    /\ bw = [t \in Threads |-> UnbornBackup]
    /\ rThread = None
    /\ rJobId = None
    /\ rw = [t \in Threads |-> UnbornRestore]
    /\ api = Idle
    /\ resp = Response("none", 0, None)
    /\ cronRuns = 0
    /\ calls = 0
    /\ storeOp = NoStoreOp
    /\ run = NoRun

SpecSave ==
    /\ InitSave
    /\ [][\/ \E settings \in SaveInputs : StoreSave(settings)
          \/ \E partial \in StorePartials \cup {UnknownKey} : StoreUpdate(partial)]_vars

\* load_settings, lines 49-61, called by itself (api.py, lines 251, 296)
StoreLoad ==
    /\ storeOp' = [op |-> "load_settings", partial |-> NoDict,
                   before |-> load_settings(config, now)]
    /\ UNCHANGED <<config, crontab, BACKUP_RETENTION_DAYS, now, bThread, bJobId, bw,
                   rThread, rJobId, rw, api, resp, cronRuns, calls, run>>

\* loads between the saves and updates
SpecLoad ==
    /\ InitSave
    /\ [][\/ StoreLoad
          \/ \E settings \in SaveInputs : StoreSave(settings)
          \/ \E partial \in StorePartials \cup {UnknownKey} : StoreUpdate(partial)]_vars

(***************************************************************************)
(* One pipeline run looked at alone.  The service is at rest; `run` holds  *)
(* the locals of the run and the world it acts on.                         *)
(***************************************************************************)
ServiceVars == <<config, crontab, BACKUP_RETENTION_DAYS, now, bThread, bJobId, bw,
                 rThread, rJobId, rw, api, resp, cronRuns, calls, storeOp>>

\* the service at rest with BACKUP_RETENTION_DAYS = days, and the run r
\* about to start
RunInitWith(r, days) ==
    /\ config = [exists |-> TRUE, data |-> save_payload(DEFAULT_SETTINGS)]
    /\ crontab = cron_line(DEFAULT_SETTINGS)
    /\ BACKUP_RETENTION_DAYS = days
    /\ now = 0
    /\ bThread = None
    /\ bJobId = None
    /\ bw = [t \in Threads |-> UnbornBackup]
    /\ rThread = None
    /\ rJobId = None
    /\ rw = [t \in Threads |-> UnbornRestore]
    /\ api = Idle
    /\ resp = Response("none", 0, None)
    /\ cronRuns = 0
    /\ calls = 0
    /\ storeOp = NoStoreOp
    /\ run = r

RunInit(r) == RunInitWith(r, DefaultRetentionDays)

\* all sequences over S of length at most n
SeqsUpTo(S, n) == UNION {[1..k -> S] : k \in 0..n}

(***************************************************************************)
(* backup.py, perform_restore lines 629-631: the replay loop, statement by *)
(* statement.  session.execute_write either commits the statement or       *)
(* raises with nothing committed.                                          *)
(***************************************************************************)
\* statements per script
MaxStatements == 3

StatementTexts == {"CREATE a", "CREATE b", "CREATE c"}

\* a loop that walks the list from its end
StatementFromEnd(statements, i) == statements[Len(statements) + 1 - i]

\* the i-th item `for statement in statements` yields
StatementAt(statements, i) == statements[i]

ReplayRuns ==
    {[op |-> "replay", pc |-> "loop", statements |-> s, taken |-> 0,
      statements_applied |-> 0, committed |-> <<>>] :
        s \in SeqsUpTo(StatementTexts, MaxStatements)}

\* lines 629-631: the next statement is executed and counted, or raises
ReplayStatement ==
    /\ run.op = "replay"
    /\ run.pc = "loop"
    /\ run.taken < Len(run.statements)
    /\ \/ run' = [run EXCEPT
                     !.taken = @ + 1,
                     !.committed = Append(@, StatementAt(run.statements, run.taken + 1)),
                     !.statements_applied = @ + 1]
       \/ run' = [run EXCEPT !.taken = @ + 1, !.pc = "raised"]
    /\ UNCHANGED ServiceVars

\* line 629: the list is exhausted
ReplayEnd ==
    /\ run.op = "replay"
    /\ run.pc = "loop"
    /\ run.taken = Len(run.statements)
    /\ run' = [run EXCEPT !.pc = "done"]
    /\ UNCHANGED ServiceVars

SpecReplay ==
    /\ \E r \in ReplayRuns : RunInit(r)
    /\ [][ReplayStatement \/ ReplayEnd]_vars

(***************************************************************************)
(* backup.py, perform_restore lines 561-658: the files of one restore run  *)
(* in BACKUP_DIR/restore-temp.  The directory is empty when the run        *)
(* starts.  A file is "absent", "partial" (opened for writing, not all     *)
(* written) or "complete".  Path.unlink on an existing file succeeds.      *)
(* s3.download_file leaves either the complete file or none.  `database`   *)
(* is the content of the target database: "intact" until a statement of    *)
(* _drop_schema_and_data has run, then "partly wiped" or "wiped", and      *)
(* "partly restored" or "restored" once statements have been replayed.     *)
(***************************************************************************)
RestoreFileKeys == {"neo4j-backup/neo4j_2024-01-01_00-00-00.cypher.gz",
                    "neo4j-backup/neo4j_2024-01-01_00-00-00.cypher"}

\* local_download.suffix == '.gz', line 599
SuffixGz(key) == key = "neo4j-backup/neo4j_2024-01-01_00-00-00.cypher.gz"

RestoreFileRuns ==
    {[op |-> "restore", pc |-> "start", backup_key |-> k,
      local_download |-> "absent", decompressed |-> "absent",
      cypher_file |-> "local_download", exit |-> "none", failed |-> "none",
      database |-> "intact"] :
        k \in RestoreFileKeys}

\* lines 569-585: the checks before the download, and tmp_dir.mkdir
RfStart ==
    /\ run.op = "restore"
    /\ run.pc = "start"
    /\ \/ run' = [run EXCEPT !.pc = "download"]
       \/ \E f \in {"validate", "verify"} :
            run' = [run EXCEPT !.pc = "exit", !.exit = "returned failure", !.failed = f]
       \/ run' = [run EXCEPT !.pc = "exit", !.exit = "raised", !.failed = "mkdir"]
    /\ UNCHANGED ServiceVars

\* lines 587-594: download, then the status write; only ClientError is caught
RfDownload ==
    /\ run.op = "restore"
    /\ run.pc = "download"
    /\ \/ run' = [run EXCEPT !.local_download = "complete", !.pc = "clearing"]
       \/ run' = [run EXCEPT !.pc = "exit", !.exit = "returned failure",
                             !.failed = "client_error"]
       \/ run' = [run EXCEPT !.pc = "exit", !.exit = "raised", !.failed = "other_error"]
    /\ UNCHANGED ServiceVars

\* line 590: update_runtime_state returns or raises; no handler, no finally
RfClearing ==
    /\ run.op = "restore"
    /\ run.pc = "clearing"
    /\ \/ run' = [run EXCEPT !.pc = "decompress"]
       \/ run' = [run EXCEPT !.pc = "exit", !.exit = "raised", !.failed = "status write"]
    /\ UNCHANGED ServiceVars

\* lines 596-606: cypher_file names the decompressed file only after the
\* whole copy has been written
RfDecompress ==
    /\ run.op = "restore"
    /\ run.pc = "decompress"
    /\ IF SuffixGz(run.backup_key)
       THEN \/ run' = [run EXCEPT !.decompressed = "complete",
                                  !.cypher_file = "decompressed",
                                  !.local_download = "absent",
                                  !.pc = "load"]
            \/ run' = [run EXCEPT !.decompressed = "partial", !.pc = "except",
                                  !.failed = "decompress"]
       ELSE run' = [run EXCEPT !.pc = "load"]
    /\ UNCHANGED ServiceVars

\* a failure that is noted and does not stop the run
RfFailureNoted(r, f) == [r EXCEPT !.pc = "replaying", !.failed = f]

\* an exception raised at lines 608-617 goes to the handler at line 642
RfFailure(r, f) == [r EXCEPT !.pc = "except", !.failed = f]

\* lines 608-617: the driver is made and the script is read
RfLoad ==
    /\ run.op = "restore"
    /\ run.pc = "load"
    /\ \/ run' = [run EXCEPT !.pc = "replaying"]
       \/ \E f \in {"driver", "parse"} : run' = RfFailure(run, f)
    /\ UNCHANGED ServiceVars

\* The steps of the try block that go on to the next or raise: the status
\* write of lines 619-623, the session and the drops of 625-627, the replay
\* loop of 629-634, driver.close() of 636.
RfTrySteps ==
    {<<"replaying", "drop", "status write">>,
     <<"drop", "replay", "drop">>,
     <<"replay", "close", "statement">>,
     <<"close", "done", "close">>}

\* what a step of the try block leaves in the database when it ends, and
\* what it may leave when it raises
RfDatabase(step, database, raised) ==
    CASE step = "drop" -> IF raised THEN {database, "partly wiped"} ELSE {"wiped"}
      [] step = "replay" -> IF raised THEN {database, "partly restored"} ELSE {"restored"}
      [] OTHER -> {database}

RfStep ==
    /\ run.op = "restore"
    /\ \E st \in RfTrySteps :
         /\ run.pc = st[1]
         /\ \/ \E d \in RfDatabase(st[1], run.database, FALSE) :
                 run' = [run EXCEPT !.pc = st[2], !.database = d]
            \/ \E d \in RfDatabase(st[1], run.database, TRUE) :
                 run' = [run EXCEPT !.pc = "except", !.failed = st[3], !.database = d]
    /\ UNCHANGED ServiceVars

\* lines 637-640: the last status write, then the return of the success
RfDone ==
    /\ run.op = "restore"
    /\ run.pc = "done"
    /\ \/ run' = [run EXCEPT !.pc = "finally", !.exit = "returned success"]
       \/ run' = [run EXCEPT !.pc = "except", !.failed = "last status write"]
    /\ UNCHANGED ServiceVars

\* lines 642-646: the handler writes the progress, which may raise again
RfExcept ==
    /\ run.op = "restore"
    /\ run.pc = "except"
    /\ \/ run' = [run EXCEPT !.pc = "finally", !.exit = "returned failure"]
       \/ run' = [run EXCEPT !.pc = "finally", !.exit = "raised"]
    /\ UNCHANGED ServiceVars

\* lines 647-658: cypher_file is unlinked, then local_download
RfFinally ==
    /\ run.op = "restore"
    /\ run.pc = "finally"
    /\ run' = [run EXCEPT
                 !.decompressed = IF run.cypher_file = "decompressed"
                                  THEN "absent" ELSE @,
                 !.local_download = "absent",
                 !.pc = "exit"]
    /\ UNCHANGED ServiceVars

SpecRestoreFiles ==
    /\ \E r \in RestoreFileRuns : RunInit(r)
    /\ [][\/ RfStart
          \/ RfDownload
          \/ RfClearing
          \/ RfDecompress
          \/ RfLoad
          \/ RfStep
          \/ RfDone
          \/ RfExcept
          \/ RfFinally]_vars

(***************************************************************************)
(* Python strings, as sequences of one-character strings, and the str and  *)
(* datetime methods cleanup_old_backups and perform_backup call on them.   *)
(* The characters of the model are letters, digits and - _ . /             *)
(***************************************************************************)
RECURSIVE str_replace(_, _)
\* s.replace(pat, ''): every occurrence, left to right, not overlapping
str_replace(s, pat) ==
    IF Len(s) = 0 THEN <<>>
    ELSE IF Len(pat) <= Len(s) /\ SubSeq(s, 1, Len(pat)) = pat
    THEN str_replace(SubSeq(s, Len(pat) + 1, Len(s)), pat)
    ELSE <<s[1]>> \o str_replace(Tail(s), pat)

RECURSIVE str_split(_, _)
\* s.split(sep) for a one-character sep
str_split(s, sep) ==
    IF \A i \in 1..Len(s) : s[i] # sep THEN <<s>>
    ELSE LET i == CHOOSE k \in 1..Len(s) :
                     s[k] = sep /\ \A j \in 1..(k - 1) : s[j] # sep
         IN  <<SubSeq(s, 1, i - 1)>> \o str_split(SubSeq(s, i + 1, Len(s)), sep)

DigitChars == <<"0", "1", "2", "3", "4", "5", "6", "7", "8", "9">>

RECURSIVE ToInt(_)
\* int(s) for a string of digits
ToInt(s) ==
    IF Len(s) = 0 THEN 0
    ELSE 10 * ToInt(SubSeq(s, 1, Len(s) - 1))
         + (CHOOSE d \in 1..10 : DigitChars[d] = s[Len(s)]) - 1

\* %m, %d, %H, %M, %S of strftime: two digits
Pad2(n) == <<DigitChars[(n \div 10) + 1], DigitChars[(n % 10) + 1]>>

\* a datetime without microseconds
DateTime(Y, M, D, h, m, s) == [Y |-> Y, M |-> M, D |-> D, h |-> h, m |-> m, s |-> s]

DaysInMonth(y, m) ==
    IF m = 2
    THEN (IF (y % 4 = 0 /\ y % 100 # 0) \/ y % 400 = 0 THEN 29 ELSE 28)
    ELSE IF m \in {4, 6, 9, 11} THEN 30 ELSE 31

RECURSIVE DaysBeforeMonth(_, _)
DaysBeforeMonth(y, m) ==
    IF m = 1 THEN 0 ELSE DaysBeforeMonth(y, m - 1) + DaysInMonth(y, m - 1)

\* a point in time as <<day, second of the day>>, the day as date.toordinal
\* counts it: 0001-01-01 is day 1
Instant(dt) ==
    LET y == dt.Y - 1
    IN  <<365 * y + (y \div 4) - (y \div 100) + (y \div 400)
              + DaysBeforeMonth(dt.Y, dt.M) + dt.D,
          3600 * dt.h + 60 * dt.m + dt.s>>

\* a <= b, for a wrong comparison
NotAfter(a, b) == a[1] < b[1] \/ (a[1] = b[1] /\ a[2] <= b[2])

\* a < b on datetimes
Before(a, b) == a[1] < b[1] \/ (a[1] = b[1] /\ a[2] < b[2])

\* strftime('%Y-%m-%d_%H-%M-%S'), line 452; %Y is four digits
strftime(dt) ==
    Pad2(dt.Y \div 100) \o Pad2(dt.Y % 100) \o <<"-">> \o Pad2(dt.M) \o <<"-">>
    \o Pad2(dt.D) \o <<"_">>
    \o Pad2(dt.h) \o <<"-">> \o Pad2(dt.m) \o <<"-">> \o Pad2(dt.s)

\* one numeric field of strptime: digits only, a width and a range
Field(s, widths, lo, hi) ==
    /\ Len(s) \in widths
    /\ \A i \in 1..Len(s) : \E d \in 1..10 : DigitChars[d] = s[i]
    /\ ToInt(s) >= lo
    /\ ToInt(s) <= hi

\* datetime.strptime(date + '_' + time, '%Y-%m-%d_%H-%M-%S') where neither
\* part holds a '_': None stands for the ValueError.  %Y is four digits,
\* the other fields one or two; the date must exist.
strptime(date, time) ==
    LET d == str_split(date, "-")
        t == str_split(time, "-")
    IN  IF /\ Len(d) = 3
           /\ Len(t) = 3
           /\ Field(d[1], {4}, 1, 9999)
           /\ Field(d[2], {1, 2}, 1, 12)
           /\ Field(d[3], {1, 2}, 1, 31)
           /\ Field(t[1], {1, 2}, 0, 23)
           /\ Field(t[2], {1, 2}, 0, 59)
           /\ Field(t[3], {1, 2}, 0, 59)
           /\ ToInt(d[3]) <= DaysInMonth(ToInt(d[1]), ToInt(d[2]))
        THEN Some(DateTime(ToInt(d[1]), ToInt(d[2]), ToInt(d[3]),
                           ToInt(t[1]), ToInt(t[2]), ToInt(t[3])))
        ELSE None

DotCypher == <<".", "c", "y", "p", "h", "e", "r">>
DotCypherGz == DotCypher \o <<".", "g", "z">>

\* lines 333-342: the date of a backup object as its key tells it, or None
\* where the code raises ValueError
backup_date(key) ==
    LET path == str_split(key, "/")
        filename == path[Len(path)]
        name_without_ext == str_replace(str_replace(filename, DotCypherGz), DotCypher)
        parts == str_split(name_without_ext, "_")
    IN  IF Len(parts) >= 3
        THEN strptime(parts[Len(parts) - 1], parts[Len(parts)])
        ELSE None

\* a cleanup that deletes every backup not newer than now
NotNewer(key, today, retention) ==
    /\ backup_date(key) # None
    /\ NotAfter(Instant(backup_date(key)[1]), Instant(today))

\* lines 327 and 344: the object is older than now - timedelta(days=retention)
Expired(key, today, retention) ==
    /\ backup_date(key) # None
    /\ Before(Instant(backup_date(key)[1]),
              <<Instant(today)[1] - retention, Instant(today)[2]>>)

(***************************************************************************)
(* backup.py, perform_backup lines 424-498 with create_neo4j_export,       *)
(* compress_file, upload_to_r2 and cleanup_old_backups: the files of one   *)
(* backup run in BACKUP_DIR, the bucket, and the object the run uploads.   *)
(* The run's file names carry its timestamp, so neither file exists when   *)
(* it starts.  Path.stat and Path.unlink on an existing file succeed.  The *)
(* run takes less than a second, so datetime.now() is the same throughout. *)
(***************************************************************************)
\* objects in the bucket when the run starts
MaxObjects == 3

PrefixChars == <<"n", "e", "o", "4", "j", "-", "b", "a", "c", "k", "u", "p">>

\* NEO4J_DATABASE, line 25
DatabaseChars == <<"n", "e", "o", "4", "j">>

\* f'{BACKUP_PREFIX}/{name}', lines 320 and 471
RemoteKey(name) == PrefixChars \o <<"/">> \o name

\* lines 452-455 and 463: the names of the run's files
ExportName(today) == DatabaseChars \o <<"_">> \o strftime(today) \o DotCypher
CompressedName(today) == DatabaseChars \o <<"_">> \o strftime(today) \o DotCypherGz

\* Objects under the prefix: backups of earlier runs, named as line 453
\* names them, and objects of other names.
Objects ==
    LET Named(stamp, ext) == RemoteKey(<<"d", "b", "_">> \o stamp \o ext)
        jan1 == strftime(DateTime(2024, 1, 1, 0, 0, 0))
    IN  [old |-> Named(jan1, DotCypherGz),
         new |-> Named(strftime(DateTime(2024, 2, 10, 0, 0, 0)), DotCypherGz),
         week_old |-> Named(strftime(DateTime(2024, 2, 4, 0, 0, 0)), DotCypher),
         two_parts |-> Named(<<"c", "o", "r", "r", "u", "p", "t", "e", "d">>, DotCypher),
         other_extension |-> Named(jan1, <<".", "t", "a", "r">>),
         no_such_day |-> Named(<<"2", "0", "2", "3", "-", "0", "2", "-", "2", "9", "_",
                                 "0", "0", "-", "0", "0", "-", "0", "0">>, DotCypherGz),
         no_extension |-> Named(jan1, <<>>),
         two_extensions |-> Named(jan1, DotCypherGz \o DotCypher)]

BucketKeys == {Objects[o] : o \in DOMAIN Objects}

Buckets == {b \in SUBSET BucketKeys : Cardinality(b) <= MaxObjects}

\* datetime.now() of the run
Todays == {DateTime(2024, 2, 11, 0, 0, 0), DateTime(2024, 3, 3, 0, 0, 0)}

\* BACKUP_RETENTION_DAYS of the process, line 36
RetentionDays == {1, DefaultRetentionDays}

\* the order in which list_objects_v2 returns keys: by their bytes
AsciiOrder == <<"-", ".", "/", "0", "1", "2", "3", "4", "5", "6", "7", "8", "9", "_",
                "a", "b", "c", "d", "e", "f", "g", "h", "i", "j", "k", "l", "m",
                "n", "o", "p", "q", "r", "s", "t", "u", "v", "w", "x", "y", "z">>

RECURSIVE KeyLess(_, _)
KeyLess(a, b) ==
    IF Len(b) = 0 THEN FALSE
    ELSE IF Len(a) = 0 THEN TRUE
    ELSE IF a[1] = b[1] THEN KeyLess(Tail(a), Tail(b))
    ELSE LET Rank(c) == CHOOSE i \in 1..Len(AsciiOrder) : AsciiOrder[i] = c
         IN  Rank(a[1]) < Rank(b[1])

RECURSIVE Listing(_)
\* response['Contents'] of list_objects_v2, lines 318-321
Listing(bucket) ==
    IF bucket = {} THEN <<>>
    ELSE LET first == CHOOSE k \in bucket : \A o \in bucket \ {k} : KeyLess(k, o)
         IN  <<first>> \o Listing(bucket \ {first})

\* the exceptions a step can raise, by the except clause that names them
ErrorKinds == {"client_error", "other_error"}

\* a handler for ClientError only
ExceptClientError == {"client_error"}

\* lines 355-358: cleanup_old_backups catches ClientError, then Exception
CleanupCatches == {"client_error", "other_error"}

\* lines 449-450: `except Exception` around collect_graph_summary
SummaryCatches == {"client_error", "other_error"}

BackupFileRuns ==
    {[op |-> "backup", pc |-> "start", COMPRESSION_ENABLED |-> c, today |-> d,
      export_file |-> "absent", compressed_file |-> "absent",
      upload_file |-> "none", upload |-> "none", summary |-> None,
      metadata |-> None, uploaded |-> None, bucket |-> b, listed |-> {}, Contents |-> <<>>,
      deleted |-> {}, exit |-> "none", failed |-> "none",
      result |-> NoResult] :
        c \in BOOLEAN, d \in Todays, b \in Buckets}

\* a failed step that is logged and followed by the retention cleanup
BfLogFailure(r, f) == [r EXCEPT !.pc = "cleanup", !.failed = f]

\* a `return BackupResult(False, None, ..., message)` of step f
BfReturnFailure(r, f) ==
    [r EXCEPT !.pc = "exit", !.exit = "returned", !.failed = f,
              !.result = [success |-> FALSE, remote_key |-> None,
                          error |-> Some(BackupMessage(f))]]

\* lines 494-498
BfReturnSuccess(r) ==
    [r EXCEPT !.pc = "exit", !.exit = "returned",
              !.result = [success |-> TRUE, remote_key |-> r.uploaded,
                          error |-> None]]

\* an exception leaving perform_backup from step f
BfRaise(r, f) == [r EXCEPT !.pc = "exit", !.exit = "raised", !.failed = f]

\* lines 434-444
BfStart ==
    /\ run.op = "backup"
    /\ run.pc = "start"
    /\ \/ run' = [run EXCEPT !.pc = "summary"]
       \/ \E f \in {"validate", "verify"} : run' = BfReturnFailure(run, f)
       \/ run' = BfRaise(run, "mkdir")
    /\ UNCHANGED ServiceVars

\* lines 446-450: collect_graph_summary returns, or raises and is caught
BfSummary ==
    /\ run.op = "backup"
    /\ run.pc = "summary"
    /\ \/ run' = [run EXCEPT !.summary = Some("summary"), !.pc = "export"]
       \/ \E e \in ErrorKinds :
            run' = IF e \in SummaryCatches
                   THEN [run EXCEPT !.failed = "summary", !.pc = "export"]
                   ELSE BfRaise(run, "summary")
    /\ UNCHANGED ServiceVars

\* lines 455-461 with create_neo4j_export (109-245): the file is opened for
\* writing at line 150 or 161; an error before that leaves no file, an
\* error after it leaves what was written
BfExport ==
    /\ run.op = "backup"
    /\ run.pc = "export"
    /\ \/ run' = [run EXCEPT !.export_file = "complete",
                             !.upload_file = "export_file", !.pc = "compress"]
       \/ \E left \in {"absent", "partial"} :
            run' = [BfReturnFailure(run, "export") EXCEPT !.export_file = left]
    /\ UNCHANGED ServiceVars

\* lines 462-468 with compress_file (248-272): the export is unlinked at
\* line 265, after the copy and after the ratio has been computed
BfCompress ==
    /\ run.op = "backup"
    /\ run.pc = "compress"
    /\ IF run.COMPRESSION_ENABLED
       THEN \/ run' = [run EXCEPT !.compressed_file = "complete",
                                  !.export_file = "absent",
                                  !.upload_file = "compressed_file",
                                  !.pc = "upload"]
            \/ \E left \in {"absent", "partial", "complete"} :
                 run' = [BfReturnFailure(run, "compress") EXCEPT
                            !.compressed_file = left]
       ELSE run' = [run EXCEPT !.pc = "upload"]
    /\ UNCHANGED ServiceVars

\* a cleanup that runs only after a successful upload
UnlinkAfterSuccess(outcome, state) == IF outcome = "ok" THEN "absent" ELSE state

\* lines 487-490: the finally of the upload step
UploadFinally(outcome, state) == "absent"

\* lines 470-490 with upload_to_r2 (275-307), which returns False for every
\* Exception; "raised" is an exception that is not an Exception
BfUpload ==
    /\ run.op = "backup"
    /\ run.pc = "upload"
    /\ \E o \in {"ok", "failed", "raised"} :
         LET meta == IF run.summary = None THEN None ELSE Some("meta-nodes")
             name == IF run.upload_file = "compressed_file"
                     THEN CompressedName(run.today) ELSE ExportName(run.today)
             removed == [run EXCEPT
                           !.export_file =
                               IF run.upload_file = "export_file"
                               THEN UploadFinally(o, @) ELSE @,
                           !.compressed_file =
                               IF run.upload_file = "compressed_file"
                               THEN UploadFinally(o, @) ELSE @,
                           !.metadata = meta,
                           !.upload = o]
         IN  run' = CASE o = "ok" ->
                          [removed EXCEPT !.uploaded = Some(RemoteKey(name)),
                                          !.bucket = @ \cup {RemoteKey(name)},
                                          !.pc = "cleanup"]
                      [] o = "failed" -> BfReturnFailure(removed, "upload")
                      [] o = "raised" -> BfRaise(removed, "upload")
    /\ UNCHANGED ServiceVars

\* an exception of kind e in cleanup_old_backups at step f, lines 355-358
BfCleanupError(r, f, e) ==
    IF e \in CleanupCatches
    THEN BfReturnSuccess([r EXCEPT !.failed = f])
    ELSE BfRaise(r, f)

\* lines 313-328: the listing
BfCleanupList ==
    /\ run.op = "backup"
    /\ run.pc = "cleanup"
    /\ \/ run' = IF run.bucket = {}
                 THEN BfReturnSuccess(run)
                 ELSE [run EXCEPT !.listed = run.bucket,
                                  !.Contents = Listing(run.bucket),
                                  !.pc = "cleanup loop"]
       \/ \E e \in ErrorKinds : run' = BfCleanupError(run, "list", e)
    /\ UNCHANGED ServiceVars

\* lines 330-351: one object of the listing
BfCleanupObject ==
    /\ run.op = "backup"
    /\ run.pc = "cleanup loop"
    /\ Len(run.Contents) > 0
    /\ LET key == Head(run.Contents)
           rest == [run EXCEPT !.Contents = Tail(@)]
       IN  IF Expired(key, run.today, BACKUP_RETENTION_DAYS)
           THEN \/ run' = [rest EXCEPT !.bucket = @ \ {key},
                                       !.deleted = @ \cup {key}]
                \/ \E e \in ErrorKinds : run' = BfCleanupError(rest, "delete", e)
           ELSE run' = rest
    /\ UNCHANGED ServiceVars

\* lines 353 and 492-498: the listing is exhausted
BfCleanupEnd ==
    /\ run.op = "backup"
    /\ run.pc = "cleanup loop"
    /\ Len(run.Contents) = 0
    /\ run' = BfReturnSuccess(run)
    /\ UNCHANGED ServiceVars

SpecBackupFiles ==
    /\ \E r \in BackupFileRuns, days \in RetentionDays : RunInitWith(r, days)
    /\ [][\/ BfStart
          \/ BfSummary
          \/ BfExport
          \/ BfCompress
          \/ BfUpload
          \/ BfCleanupList
          \/ BfCleanupObject
          \/ BfCleanupEnd]_vars

(***************************************************************************)
(* backup.py, _drop_schema_and_data (506-528) inside perform_restore's try *)
(* (625-646): the wipe of one restore run.  The database holds named       *)
(* constraints and indexes and the data; `todo` is the list SHOW           *)
(* CONSTRAINTS, then SHOW INDEXES, returned and the loop still has to      *)
(* visit, `ran` the drops that were run.  session.run raises or does what   *)
(* the statement says.                                                     *)
(***************************************************************************)
WipeRuns ==
    {[op |-> "wipe", pc |-> "constraints", constraints |-> c, indexes |-> i,
      todo |-> c, data |-> TRUE, replayed |-> FALSE, drop_failed |-> FALSE,
      failed_at |-> "none", ran |-> <<>>, result |-> "none"] :
        c \in SUBSET {"c1", "c2"}, i \in SUBSET {"i1", "i2"}}

\* lines 515-519 and 522-526: the next record of the list is dropped, or
\* session.run raises, which nothing in _drop_schema_and_data catches, so
\* the handler of perform_restore (642-646) returns the failed result;
\* line 521 lists the indexes once the constraints are done
WipeDrop ==
    /\ run.op = "wipe"
    /\ run.pc \in {"constraints", "indexes"}
    /\ IF run.todo = {}
       THEN run' = IF run.pc = "constraints"
                   THEN [run EXCEPT !.pc = "indexes", !.todo = run.indexes]
                   ELSE [run EXCEPT !.pc = "delete"]
       ELSE \E name \in run.todo :
              \/ run' = IF run.pc = "constraints"
                        THEN [run EXCEPT !.constraints = @ \ {name},
                                         !.todo = @ \ {name},
                                         !.ran = Append(@, name)]
                        ELSE [run EXCEPT !.indexes = @ \ {name},
                                         !.todo = @ \ {name},
                                         !.ran = Append(@, name)]
              \/ run' = [run EXCEPT !.drop_failed = TRUE, !.failed_at = name,
                                    !.pc = "exit", !.result = "failed"]
    /\ UNCHANGED ServiceVars

\* line 528: MATCH (n) DETACH DELETE n
WipeDelete ==
    /\ run.op = "wipe"
    /\ run.pc = "delete"
    /\ \/ run' = [run EXCEPT !.data = FALSE, !.pc = "replay"]
       \/ run' = [run EXCEPT !.pc = "exit", !.result = "failed"]
    /\ UNCHANGED ServiceVars

\* lines 629-640: the replay and the return of the success
WipeReplay ==
    /\ run.op = "wipe"
    /\ run.pc = "replay"
    /\ \/ run' = [run EXCEPT !.replayed = TRUE, !.pc = "exit", !.result = "success"]
       \/ run' = [run EXCEPT !.pc = "exit", !.result = "failed"]
    /\ UNCHANGED ServiceVars

SpecWipe ==
    /\ \E r \in WipeRuns : RunInit(r)
    /\ [][WipeDrop \/ WipeDelete \/ WipeReplay]_vars

(***************************************************************************)
(* backup.py, _load_statements (531-558): the parse of one script, line by *)
(* line, and the lines create_neo4j_export writes for nodes (193-201).  A  *)
(* line is a string that ends with its newline.                            *)
(***************************************************************************)
\* lines per script
MaxLines == 3

\* nodes per export
MaxNodes == 2

RECURSIVE str_strip(_)
\* s.strip(): blanks and newlines off both ends
str_strip(s) ==
    IF Len(s) = 0 THEN s
    ELSE IF s[1] \in {" ", "\n"} THEN str_strip(Tail(s))
    ELSE IF s[Len(s)] \in {" ", "\n"} THEN str_strip(SubSeq(s, 1, Len(s) - 1))
    ELSE s

RECURSIVE str_join(_)
\* ''.join(buffer)
str_join(buffer) ==
    IF Len(buffer) = 0 THEN <<>> ELSE Head(buffer) \o str_join(Tail(buffer))

\* The lines of the scripts of the model: blank, of blanks, comments,
\* statements on one line, parts of statements, and lines with more than
\* one ';'.
ScriptLines ==
    {<<"\n">>,
     <<" ", " ", "\n">>,
     <<"/", "/", " ", "a", ";", "\n">>,
     <<" ", "/", "/", "\n">>,
     <<"a", ";", "\n">>,
     <<" ", "a", " ", ";", " ", "\n">>,
     <<"a", " ", "/", "/", "\n">>,
     <<"b", "\n">>,
     <<"b", ";", ";", "\n">>,
     <<";", "\n">>}

\* lines 194-201: the statement that creates one node
CreateStatement(labels, props_str) ==
    <<"C", "R", "E", "A", "T", "E", " ", "(", "n", ":">> \o labels
    \o (IF Len(props_str) > 0 THEN <<" ", "{">> \o props_str \o <<"}">> ELSE <<>>)
    \o <<")">>

\* nodes with and without labels and properties; repr of a string keeps its
\* ';' and '//' inside quotes
NodeStatements ==
    {CreateStatement(l, p) :
        l \in {<<>>, <<"A">>, <<"A", ":", "B">>},
        p \in {<<>>, <<"k", ":", " ", "1">>, <<"k", ":", " ", "'", ";", "'">>,
               <<"k", ":", " ", "'", "/", "/", "'">>}}

\* a writer that leaves out the ';'
ExportLineBare(statement) == statement \o <<"\n">>

\* lines 199 and 201: f"{statement};\n"
ExportLine(statement) == statement \o <<";", "\n">>

\* a parser that removes every trailing ';'
RECURSIVE without_semicolons(_)
without_semicolons(statement) ==
    IF Len(statement) > 0 /\ statement[Len(statement)] = ";"
    THEN without_semicolons(SubSeq(statement, 1, Len(statement) - 1))
    ELSE statement

\* lines 548-549: statement[:-1] if statement.endswith(';')
without_semicolon(statement) ==
    IF Len(statement) > 0 /\ statement[Len(statement)] = ";"
    THEN SubSeq(statement, 1, Len(statement) - 1)
    ELSE statement

\* Scripts of any lines, and scripts the export wrote: `written` holds the
\* statements of the latter.
ParseRuns ==
    {[op |-> "parse", pc |-> "lines", lines |-> f, read |-> 0, buffer |-> <<>>,
      statements |-> <<>>, written |-> None] :
        f \in SeqsUpTo(ScriptLines, MaxLines)}
    \cup
    {[op |-> "parse", pc |-> "lines",
      lines |-> [i \in 1..Len(w) |-> ExportLine(w[i])], read |-> 0,
      buffer |-> <<>>, statements |-> <<>>, written |-> Some(w)] :
        w \in SeqsUpTo(NodeStatements, MaxNodes)}

\* lines 536-550: one line of the file
ParseLine ==
    /\ run.op = "parse"
    /\ run.pc = "lines"
    /\ run.read < Len(run.lines)
    /\ LET line == run.lines[run.read + 1]
           stripped == str_strip(line)
           next == [run EXCEPT !.read = @ + 1]
           buffer == Append(run.buffer, line)
           statement == str_strip(str_join(buffer))
       IN  run' =
             IF Len(stripped) = 0 \/ (Len(stripped) >= 2 /\ SubSeq(stripped, 1, 2) = <<"/", "/">>)
             THEN next
             ELSE IF stripped[Len(stripped)] # ";"
             THEN [next EXCEPT !.buffer = buffer]
             ELSE IF Len(statement) = 0
             THEN [next EXCEPT !.buffer = <<>>]
             ELSE [next EXCEPT !.buffer = <<>>,
                               !.statements =
                                   Append(@, str_strip(without_semicolon(statement)))]
    /\ UNCHANGED ServiceVars

\* lines 552-558: the buffer left after the last line
ParseFlush ==
    /\ run.op = "parse"
    /\ run.pc = "lines"
    /\ run.read = Len(run.lines)
    /\ LET statement == str_strip(str_join(run.buffer))
       IN  run' = IF Len(run.buffer) > 0 /\ Len(statement) > 0
                  THEN [run EXCEPT !.pc = "done", !.statements = Append(@, statement)]
                  ELSE [run EXCEPT !.pc = "done"]
    /\ UNCHANGED ServiceVars

SpecParse ==
    /\ \E r \in ParseRuns : RunInit(r)
    /\ [][ParseLine \/ ParseFlush]_vars

(***************************************************************************)
(* config_manager.py, compute_next_run (84-96) called on its own: settings *)
(* with `enabled` and `cron` absent, None or set, at a minute of the clock *)
(* around the daily fire time and around midnight.                         *)
(***************************************************************************)
NextRunRuns ==
    {[op |-> "next_run",
      settings |-> [k \in keys |-> IF k = "enabled" THEN e ELSE c],
      at |-> t, results |-> <<>>] :
        keys \in SUBSET {"enabled", "cron"},
        e \in {None, Some(TRUE), Some(FALSE)},
        c \in {None} \cup {Some(x) : x \in CronExprs},
        t \in {0, 119, 120, 121, 1439, 1440, 1560}}

\* lines 84-96, called twice at the same time
NextRunCall ==
    /\ run.op = "next_run"
    /\ Len(run.results) < 2
    /\ run' = [run EXCEPT !.results = Append(@, compute_next_run(run.settings, run.at))]
    /\ UNCHANGED ServiceVars

SpecNextRun ==
    /\ \E r \in NextRunRuns : RunInit(r)
    /\ [][NextRunCall]_vars

(***************************************************************************)
(* backup.py, _sanitize_backup_key (501-503) and perform_restore lines     *)
(* 579-583: the path a backup key is downloaded to.  A key is any string   *)
(* of letters, dots and slashes; a path is the list of its segments from   *)
(* the root.                                                               *)
(***************************************************************************)
\* characters per key
MaxKeyLen == 4

RECURSIVE sanitize_backup_key(_)
\* backup_key.replace('..', '_')
sanitize_backup_key(backup_key) ==
    IF Len(backup_key) = 0 THEN <<>>
    ELSE IF Len(backup_key) >= 2 /\ SubSeq(backup_key, 1, 2) = <<".", ".">>
    THEN <<"_">> \o sanitize_backup_key(SubSeq(backup_key, 3, Len(backup_key)))
    ELSE <<backup_key[1]>> \o sanitize_backup_key(Tail(backup_key))

\* BACKUP_DIR / 'restore-temp', line 579
RestoreTempDir ==
    <<<<"b", "a", "c", "k", "u", "p", "s">>,
      <<"r", "e", "s", "t", "o", "r", "e", "-", "t", "e", "m", "p">>>>

\* tmp_dir / safe_name, line 583: pathlib starts again from the root when
\* the right side starts with '/', and drops empty and '.' segments
PathJoin(dir, name) ==
    LET Named(seg) == seg # <<>> /\ seg # <<".">>
        segments == SelectSeq(str_split(name, "/"), Named)
    IN  IF Len(name) > 0 /\ name[1] = "/" THEN segments ELSE dir \o segments

\* lines 582-583
DownloadPath ==
    /\ run.op = "download path"
    /\ run.pc = "start"
    /\ run' = [run EXCEPT
                 !.pc = "done",
                 !.local_download =
                     PathJoin(RestoreTempDir, sanitize_backup_key(run.backup_key))]
    /\ UNCHANGED ServiceVars

SpecDownloadPath ==
    /\ \E key \in SeqsUpTo({"a", ".", "/"}, MaxKeyLen) :
         RunInit([op |-> "download path", pc |-> "start", backup_key |-> key,
                  local_download |-> <<>>])
    /\ [][DownloadPath]_vars

(***************************************************************************)
(* config_manager.py, apply_cron_schedule (99-108), looked at alone with   *)
(* the schedule file as the characters it holds and its permission bits.   *)
(* settings is any dict; the cron expression is any string, so besides     *)
(* stars and spaces it may hold a line break (api.py, line 51, asks for a  *)
(* str and nothing more).                                                  *)
(***************************************************************************)
\* characters per cron expression
MaxCronLen == 3

\* what the line ends with: one entry stands for BACKUP_COMMAND, line 12
ScheduleCommand == <<" ", "BACKUP_COMMAND", "\n">>

\* lines 101-104, the text written
schedule_line(settings) ==
    IF Get(settings, "enabled") = Some(TRUE)
       /\ Get(settings, "cron") # None /\ Get(settings, "cron") # Some(<<>>)
    THEN Get(settings, "cron")[1] \o ScheduleCommand
    ELSE <<"# Backups disabled", "\n">>

ScheduleFiles ==
    {[exists |-> FALSE, content |-> <<>>, mode |-> "none"],
     [exists |-> TRUE, content |-> schedule_line(NoDict), mode |-> "0600"]}

ScheduleRuns ==
    {[op |-> "apply_cron_schedule", pc |-> "open", file |-> f,
      settings |-> [k \in keys |-> IF k = "enabled" THEN e ELSE c]] :
        f \in ScheduleFiles, keys \in SUBSET {"enabled", "cron"},
        e \in {None, Some(TRUE), Some(FALSE)},
        c \in {None} \cup {Some(s) : s \in SeqsUpTo({"*", " ", "\n"}, MaxCronLen)}}

\* line 106, open(..., 'w'): an absent file is created with the
\* permissions the process creates files with, an existing one is emptied
ScheduleOpen ==
    /\ run.op = "apply_cron_schedule"
    /\ run.pc = "open"
    /\ run' = [run EXCEPT
                 !.pc = "write",
                 !.file = [exists |-> TRUE, content |-> <<>>,
                           mode |-> IF run.file.exists THEN run.file.mode
                                    ELSE "umask"]]
    /\ UNCHANGED ServiceVars

\* line 107
ScheduleWrite ==
    /\ run.op = "apply_cron_schedule"
    /\ run.pc = "write"
    /\ run' = [run EXCEPT !.pc = "chmod",
                          !.file.content = schedule_line(run.settings)]
    /\ UNCHANGED ServiceVars

\* line 108
ScheduleChmod ==
    /\ run.op = "apply_cron_schedule"
    /\ run.pc = "chmod"
    /\ run' = [run EXCEPT !.pc = "done", !.file.mode = "0600"]
    /\ UNCHANGED ServiceVars

SpecSchedule ==
    /\ \E r \in ScheduleRuns : RunInit(r)
    /\ [][ScheduleOpen \/ ScheduleWrite \/ ScheduleChmod]_vars

(***************************************************************************)
(* The locks: config_manager._lock (line 34) and the _lock of each         *)
(* controller (api.py, lines 118 and 173), all threading.Lock, taken with  *)
(* `with`, so that leaving the block, by its end or by an exception, frees *)
(* the lock.  Each thread runs a script of steps; `run` holds where every  *)
(* thread is and who holds each lock.  The API thread serves one request   *)
(* at a time.                                                              *)
(***************************************************************************)
\* requests the API thread serves
MaxRequests == 3

LockThreads == {"api", "backup", "restore"}

\* load_settings, lines 54-56: the file is read inside `with _lock`
LoadSteps == <<"lock store", "read">>

\* save_settings, lines 67-71: the file is written inside `with _lock`;
\* sync_runtime_with_settings takes no lock; then load_settings
SaveSteps == <<"lock store", "write">> \o LoadSteps

\* an update that holds the store lock over its load and its save
UpdateStepsUnderLock == <<"lock store">> \o LoadSteps \o SaveSteps

\* update_settings, lines 74-77
UpdateSteps == LoadSteps \o SaveSteps

\* a trigger: `with self._lock` around the test and thread.start()
TriggerSteps(controller) == <<"lock " \o controller, "start " \o controller>>

\* the end of a worker, api.py lines 166-168 and 234-236
ClearSteps(controller) == <<"lock " \o controller, "clear " \o controller>>

\* perform_backup, lines 437-492: verify_r2_connection, the graph summary,
\* the export, the compression, the upload, the retention cleanup
BackupPipelineSteps ==
    <<"storage", "database", "database", "compress", "storage", "storage">>

\* a worker that holds its controller's lock from its start to its end
BackupStepsUnderLock ==
    <<"lock backup">> \o UpdateSteps \o BackupPipelineSteps \o UpdateSteps
        \o <<"clear backup">>

\* _run_backup, lines 145-168
BackupSteps ==
    UpdateSteps \o BackupPipelineSteps \o UpdateSteps \o ClearSteps("backup")

\* _run_restore with perform_restore: the parts of the script in order
RestoreParts ==
    <<UpdateSteps,                  \* api.py 201-211
      <<"storage", "storage">>,     \* backup.py 574, 589
      UpdateSteps,                  \* 590
      <<"compress">>,               \* 599-606
      UpdateSteps,                  \* 619-623
      <<"database", "database">>,   \* 627, 629-631
      UpdateSteps,                  \* 634
      <<"database">>,               \* 629-631
      UpdateSteps,                  \* 638
      UpdateSteps,                  \* 645, the except clause
      UpdateSteps,                  \* api.py 216-232
      ClearSteps("restore")>>       \* api.py 234-236

RECURSIVE Joined(_)
Joined(parts) == IF Len(parts) = 0 THEN <<>> ELSE Head(parts) \o Joined(Tail(parts))

RestoreSteps == Joined(RestoreParts)

\* the position at which part k of the restore script starts
RestorePartStart(k) == Len(Joined(SubSeq(RestoreParts, 1, k - 1))) + 1

RequestKinds == {"trigger_backup", "trigger_restore", "get_settings", "update_settings"}

\* api.py: the handlers at lines 249-286
RequestSteps(kind) ==
    CASE kind = "trigger_backup" -> TriggerSteps("backup")
      [] kind = "trigger_restore" -> <<"is_running">> \o TriggerSteps("restore")
      [] kind = "get_settings" -> LoadSteps
      [] kind = "update_settings" -> SaveSteps \o <<"cron file">>
      [] OTHER -> <<>>

LockScript(r, th) ==
    CASE th = "api" -> RequestSteps(r.request)
      [] th = "backup" -> BackupSteps
      [] th = "restore" -> RestoreSteps

\* the step thread th is at, "" when it is not running
LockStep(r, th) == IF r.pc[th] = 0 THEN "" ELSE LockScript(r, th)[r.pc[th]]

\* the step after position r.pc[th]; 0 ends the thread.  perform_restore
\* returns at line 640, past the except clause
LockAfter(r, th) ==
    IF r.pc[th] = Len(LockScript(r, th)) THEN 0
    ELSE IF th = "restore" /\ r.pc[th] + 1 = RestorePartStart(10) THEN RestorePartStart(11)
    ELSE r.pc[th] + 1

\* where a failed step that returns a failed result leaves the thread: at
\* the final status write of its worker
LockAfterFailure(r, th) ==
    CASE th = "backup" -> Len(UpdateSteps \o BackupPipelineSteps) + 1
      [] th = "restore" -> RestorePartStart(11)
      [] OTHER -> 0

\* where an exception leaves the thread: in the except clause of
\* perform_restore when it is raised inside its second try (599-640), and
\* otherwise out of the thread or the handler
LockAfterRaise(r, th) ==
    IF th = "restore" /\ r.pc[th] >= RestorePartStart(4) /\ r.pc[th] < RestorePartStart(10)
    THEN RestorePartStart(10)
    ELSE 0

LockGoto(r, th, to) == [r EXCEPT !.pc[th] = to]

LocksRun ==
    [op |-> "locks", pc |-> [th \in LockThreads |-> 0], request |-> "none",
     requests |-> 0,
     holder |-> [store |-> "free", backup |-> "free", restore |-> "free"]]

\* the event loop takes a request
LockRequest ==
    /\ run.op = "locks"
    /\ run.pc["api"] = 0
    /\ run.requests < MaxRequests
    /\ \E kind \in RequestKinds :
         run' = [run EXCEPT !.request = kind, !.requests = @ + 1, !.pc["api"] = 1]
    /\ UNCHANGED ServiceVars

\* `with lock:` entered: Lock.acquire() returns when the lock is free
LockTake(th) ==
    /\ run.op = "locks"
    /\ \E lock \in {"store", "backup", "restore"} :
         /\ LockStep(run, th) = "lock " \o lock
         /\ run.holder[lock] = "free"
         /\ run' = [LockGoto(run, th, LockAfter(run, th)) EXCEPT !.holder[lock] = th]
    /\ UNCHANGED ServiceVars

\* the body of `with _lock` in load_settings and save_settings: the file is
\* read or written, or that raises; either way the lock is free afterwards
LockFile(th) ==
    /\ run.op = "locks"
    /\ LockStep(run, th) \in {"read", "write"}
    /\ \E to \in {LockAfter(run, th), LockAfterRaise(run, th)} :
         run' = [LockGoto(run, th, to) EXCEPT !.holder["store"] = "free"]
    /\ UNCHANGED ServiceVars

\* the body of `with self._lock` in trigger: RuntimeError when the worker
\* is alive, else the worker is started; the lock is free afterwards
LockStart(th) ==
    /\ run.op = "locks"
    /\ \E worker \in {"backup", "restore"} :
         /\ LockStep(run, th) = "start " \o worker
         /\ run' = IF run.pc[worker] # 0
                   THEN [LockGoto(run, th, 0) EXCEPT !.holder[worker] = "free"]
                   ELSE [LockGoto(run, th, LockAfter(run, th)) EXCEPT
                           !.holder[worker] = "free", !.pc[worker] = 1]
    /\ UNCHANGED ServiceVars

\* the body of `with self._lock` at the end of a worker
LockClear(th) ==
    /\ run.op = "locks"
    /\ LockStep(run, th) = "clear " \o th
    /\ run' = [LockGoto(run, th, LockAfter(run, th)) EXCEPT !.holder[th] = "free"]
    /\ UNCHANGED ServiceVars

\* a database call, a storage call or a (de)compression: it returns, it
\* fails with a failed result, or it raises
LockExternal(th) ==
    /\ run.op = "locks"
    /\ LockStep(run, th) \in {"database", "storage", "compress"}
    /\ \E to \in {LockAfter(run, th), LockAfterFailure(run, th), LockAfterRaise(run, th)} :
         run' = LockGoto(run, th, to)
    /\ UNCHANGED ServiceVars

\* steps of a handler that take no lock: controller.is_running() in
\* trigger_restore (line 278), which ends the request when a backup is
\* running, and apply_cron_schedule (line 262)
LockLocal(th) ==
    /\ run.op = "locks"
    /\ LockStep(run, th) \in {"is_running", "cron file"}
    /\ run' = IF LockStep(run, th) = "is_running" /\ run.pc["backup"] # 0
              THEN LockGoto(run, th, 0)
              ELSE LockGoto(run, th, LockAfter(run, th))
    /\ UNCHANGED ServiceVars

\* a step of thread th
LockThreadStep(th) ==
    \/ LockTake(th)
    \/ LockFile(th)
    \/ LockStart(th)
    \/ LockClear(th)
    \/ LockExternal(th)
    \/ LockLocal(th)

NextLocks == LockRequest \/ \E th \in LockThreads : LockThreadStep(th)

SpecLocks == RunInit(LocksRun) /\ [][NextLocks]_vars

\* The threads are threads of the operating system: one that can take a
\* step is scheduled in the end, and a call into the file system, the
\* database or the storage service returns or raises.
SpecLocksFair == SpecLocks /\ \A th \in LockThreads : WF_vars(LockThreadStep(th))

(***************************************************************************)
(* Properties of the controllers.                                          *)
(***************************************************************************)

\* C1: in every reachable state, whatever the interleaving of triggers and of
\* worker threads ending (by returning or by an exception), at most one
\* backup worker and at most one restore worker started by the controllers
\* is alive.
C1_SingleFlight ==
    /\ Cardinality({t \in Threads : BackupAlive(t)}) <= 1
    /\ Cardinality({t \in Threads : RestoreAlive(t)}) <= 1

\* a backup job and a restore job in flight together, after both triggers
C1_Witness ==
    /\ calls = MaxCalls
    /\ \E t \in Threads : BackupAlive(t)
    /\ \E t \in Threads : RestoreAlive(t)

\* C2: a backup trigger that arrives while the backup controller is running
\* is answered 409 and changes nothing: the controller's thread, the workers
\* and the job id current_job_id() reports are the same after it.
C2_RejectedBackupTrigger ==
    [][(ApiTriggerBackup /\ Backup_is_running)
         => /\ resp' = Response("trigger_backup", 409, None)
            /\ bThread' = bThread
            /\ bw' = bw
            /\ Backup_current_job_id' = Backup_current_job_id
            /\ Backup_current_job_id' # None]_vars

\* a backup trigger was refused and the job it met is still running
C2_Witness ==
    /\ resp = Response("trigger_backup", 409, None)
    /\ Backup_is_running
    /\ Backup_current_job_id # None

\* C3: a restore trigger whose look at the backup controller finds it
\* running is answered 409 and starts no restore worker; and whenever a
\* restore worker is started, no backup worker of the controller is alive.
C3_RestoreRefusedDuringBackup ==
    [][/\ (\E t \in Threads : ~RestoreAlive(t) /\ RestoreAlive(t)')
            => \A u \in Threads : ~BackupAlive(u)
       /\ (ApiTriggerRestoreAlive /\ Backup_is_running)
            => /\ resp' = Response("trigger_restore", 409, None)
               /\ rw' = rw
               /\ rThread' = rThread
       /\ ((\E key \in BackupKeys : ApiTriggerRestore(key)) /\ Backup_is_running)
            => /\ rw' = rw
               /\ rThread' = rThread]_vars

\* a restore trigger was refused because of the running backup: no restore
\* job has ever been started
C3_Witness ==
    /\ resp = Response("trigger_restore", 409, None)
    /\ Backup_is_running
    /\ rThread = None
    /\ \A t \in Threads : rw[t].pc = "unborn"

\* C4: a backup run started by the schedule never executes perform_backup
\* while a manually triggered run executes it.
C4_ScheduledRunGuarded ==
    cronRuns > 0 => \A t \in Threads : bw[t].pc # "b_pipeline"

\* C5: when the backup worker and the restore worker have each returned from
\* their first merge-update (disjoint fields) and written nothing since, the
\* state file holds the values both wrote.
C5_BothWritesPersist ==
    \A t, u \in Threads :
        (bw[t].pc = "b_pipeline" /\ rw[u].pc = "r_download")
            => /\ config.data["lastStatus"] = Some("running")
               /\ config.data["restorePhase"] = Some("downloading")
               /\ config.data["lastRestoreStatus"] = Some("running")

\* C6: with no other writer, after update_settings(partial) a load returns
\* partial's value for every persisted key of partial and, for every other
\* persisted key, the value a load returned before the call.
C6_MergeUpdate ==
    storeOp.op = "update_settings"
        => \A k \in PERSISTED_KEYS :
             load_settings(config, now)[k] =
                 IF k \in DOMAIN storeOp.partial THEN storeOp.partial[k]
                 ELSE storeOp.before[k]

\* a merge-update of schedule fields only, over a state whose runtime fields
\* record a completed backup
C6_Witness ==
    /\ storeOp.op = "update_settings"
    /\ DOMAIN storeOp.partial = {"cron", "retentionDays"}
    /\ storeOp.before["lastStatus"] = Some("completed")
    /\ storeOp.before["lastBackupId"] # None

\* C7: an operator update of the schedule settings leaves every RuntimeState
\* field of the state file at the value it had before the update.
C7_UpdateKeepsRuntimeState ==
    [][\A payload \in UpdatePayloads :
          ApiUpdateSettings(payload)
              => \A k \in RuntimeKeys : config'.data[k] = config.data[k]]_vars

\* C8: once the run of a controller's worker has ended, by returning or by
\* an exception, is_running() is false and current_job_id() is None for that
\* controller, and a trigger of the controller then starts a new job.
C8_EndedRunFreesController ==
    [][/\ ((\E t \in Threads : bw[t].pc = "dead") /\ (\A t \in Threads : ~BackupAlive(t)))
            => /\ ~Backup_is_running
               /\ Backup_current_job_id = None
               /\ ApiTriggerBackup
                    => /\ resp'.status = 200
                       /\ Backup_is_running'
                       /\ Backup_current_job_id' = resp'.job
       /\ ((\E t \in Threads : rw[t].pc = "dead") /\ (\A t \in Threads : ~RestoreAlive(t)))
            => /\ ~Restore_is_running
               /\ Restore_current_job_id = None
               /\ (\E key \in BackupKeys : RestoreTrigger(key))
                    => /\ resp'.status = 200
                       /\ Restore_is_running'
                       /\ Restore_current_job_id' = resp'.job]_vars

\* a backup worker ended by an exception: the controller still holds its
\* thread and job id, and reports that nothing runs
C8_Witness ==
    \E t \in Threads :
        /\ bw[t].pc = "dead"
        /\ bThread = Some(t)
        /\ bJobId # None
        /\ ~Backup_is_running
        /\ Backup_current_job_id = None

\* C9: once a backup job has been started and no backup worker is alive, the
\* persisted lastStatus is 'completed' or 'failed', and lastError is set
\* when it is 'failed'.
C9_BackupStatusFinal ==
    ((\E t \in Threads : bw[t].pc = "dead") /\ (\A t \in Threads : ~BackupAlive(t)))
        => /\ config.data["lastStatus"] \in {Some("completed"), Some("failed")}
           /\ config.data["lastStatus"] = Some("failed") => config.data["lastError"] # None

\* C10: once a restore job has been started and no restore worker is alive,
\* the persisted lastRestoreStatus and restorePhase are both 'completed' or
\* both 'failed'.
C10_RestoreStatusFinal ==
    ((\E t \in Threads : rw[t].pc = "dead") /\ (\A t \in Threads : ~RestoreAlive(t)))
        => \/ /\ config.data["lastRestoreStatus"] = Some("completed")
              /\ config.data["restorePhase"] = Some("completed")
           \/ /\ config.data["lastRestoreStatus"] = Some("failed")
              /\ config.data["restorePhase"] = Some("failed")

\* C11: a trigger that succeeds answers with the job id while the new worker
\* has taken no step (nothing written, no pipeline step run); and as long as
\* that worker is alive the controller reports is_running() and the same
\* current_job_id(), the one the trigger returned.
C11_TriggerReturnsAtOnce ==
    [][/\ (ApiTriggerBackup /\ resp'.status = 200)
            => /\ \E t \in Threads : bThread' = Some(t) /\ bw'[t].pc = "b_start_load"
               /\ config' = config
               /\ Backup_is_running'
               /\ resp'.job # None
               /\ Backup_current_job_id' = resp'.job
       /\ (\E t \in Threads : ~RestoreAlive(t) /\ RestoreAlive(t)')
            => /\ \E t \in Threads : rThread' = Some(t) /\ rw'[t].pc = "r_start_load"
               /\ config' = config
               /\ resp'.status = 200
               /\ Restore_is_running'
               /\ resp'.job # None
               /\ Restore_current_job_id' = resp'.job
       /\ \A t \in Threads :
            /\ BackupAlive(t) => Backup_is_running /\ bThread = Some(t)
            /\ RestoreAlive(t) => Restore_is_running /\ rThread = Some(t)
            /\ (BackupAlive(t) /\ BackupAlive(t)')
                 => Backup_current_job_id' = Backup_current_job_id
            /\ (RestoreAlive(t) /\ RestoreAlive(t)')
                 => Restore_current_job_id' = Restore_current_job_id]_vars

\* a restore job at its last status write, still reported as running under
\* the id its trigger returned
C11_Witness ==
    /\ resp.op = "trigger_restore"
    /\ resp.status = 200
    /\ \E t \in Threads : rw[t].pc = "r_final_save" /\ rw[t].result.success
    /\ Restore_is_running
    /\ Restore_current_job_id = resp.job

\* C12: with no other writer, when the replay of an N-statement script fails
\* on statement k+1 (k < N), perform_restore returns success=false with
\* statements_applied=k, and after the final status write the state file has
\* restorePhase='failed', lastRestoreStatus='failed', restoreProgress=k and
\* restoreStatementsApplied=k.
C12_ReplayFailureRecorded ==
    \A t \in Threads :
        (rw[t].pc = "r_clear"
         /\ rw[t].result.error = Some(RestoreMessage("statement")))
            => /\ rw[t].applied < rw[t].total
               /\ ~rw[t].result.success
               /\ rw[t].result.statements_applied = Some(rw[t].applied)
               /\ config.data["restorePhase"] = Some("failed")
               /\ config.data["lastRestoreStatus"] = Some("failed")
               /\ config.data["restoreProgress"] = Some(rw[t].applied)
               /\ config.data["restoreStatementsApplied"] = Some(rw[t].applied)

\* a replay that failed on the last statement before the first progress write
C12_Witness ==
    \E t \in Threads :
        /\ rw[t].pc = "r_clear"
        /\ rw[t].result.error = Some(RestoreMessage("statement"))
        /\ rw[t].applied = ProgressEvery - 1
        /\ config.data["restoreProgress"] = Some(ProgressEvery - 1)

C14_ReplayInOrder ==
    [][/\ run.committed = SubSeq(run.statements, 1, run.statements_applied)
       /\ run'.committed = SubSeq(run.statements, 1, run'.statements_applied)
       /\ run'.statements_applied \in {run.statements_applied, run.statements_applied + 1}
       /\ run.pc = "raised" => run'.committed = run.committed
       /\ run'.pc = "done" => run'.committed = run.statements]_vars

\* a script of three statements whose third statement failed after the
\* first two were committed
C14_Witness ==
    /\ run.op = "replay"
    /\ run.pc = "raised"
    /\ Len(run.statements) = 3
    /\ run.statements[1] # run.statements[2]
    /\ run.committed = SubSeq(run.statements, 1, 2)

(***************************************************************************)
(* Properties of the local files of a run.                                 *)
(***************************************************************************)

\* C15: when a restore run has exited, by a returned success, a returned
\* failure or an exception, neither the downloaded file nor the
\* decompressed file, complete or partial, is left in restore-temp.
C15_NoTempFilesAtExit ==
    (run.op = "restore" /\ run.pc = "exit")
        => (run.local_download = "absent" /\ run.decompressed = "absent")

\* C16: when a backup run that reached the upload step has left
\* perform_backup, the file it uploaded from is gone, whether the upload
\* succeeded, returned failure or raised.
C16_ArtifactRemovedAfterUpload ==
    (run.op = "backup" /\ run.pc = "exit" /\ run.upload # "none")
        => /\ run.export_file = "absent"
           /\ run.compressed_file = "absent"

\* a run whose upload returned failure has exited
C16_Witness ==
    /\ run.op = "backup"
    /\ run.pc = "exit"
    /\ run.upload = "failed"
    /\ run.upload_file = "compressed_file"
    /\ run.result.error = Some("Backup failed at upload stage")
    /\ run.compressed_file = "absent"

\* C17: on every exit of a backup run, a failed export and a failed
\* compression included, neither the export file nor the compressed file
\* the run created is left in the backup directory.
C17_NoLocalFilesAtExit ==
    (run.op = "backup" /\ run.pc = "exit")
        => /\ run.export_file = "absent"
           /\ run.compressed_file = "absent"

(***************************************************************************)
(* Properties of retention cleanup.  Age is counted here without the       *)
(* code's date arithmetic: in seconds since the start of 2024, the year of *)
(* every backup of the model.                                              *)
(***************************************************************************)
DaysBefore2024 == <<0, 31, 60, 91, 121, 152, 182, 213, 244, 274, 305, 335>>

SecondsInto2024(dt) ==
    (DaysBefore2024[dt.M] + dt.D - 1) * 86400 + 3600 * dt.h + 60 * dt.m + dt.s

OlderThan(dt, today, days) ==
    SecondsInto2024(dt) < SecondsInto2024(today) - days * 86400

\* the backups of the bucket and of the run, with the time each was named at
StampedBackups ==
    {<<Objects.old, DateTime(2024, 1, 1, 0, 0, 0)>>,
     <<Objects.new, DateTime(2024, 2, 10, 0, 0, 0)>>,
     <<Objects.week_old, DateTime(2024, 2, 4, 0, 0, 0)>>}
    \cup {<<RemoteKey(ExportName(d)), d>> : d \in Todays}
    \cup {<<RemoteKey(CompressedName(d)), d>> : d \in Todays}

\* cleanup_old_backups went through the whole listing
CleanupCompleted ==
    /\ run.op = "backup"
    /\ run.pc = "exit"
    /\ run.result.success
    /\ run.listed # {}
    /\ run.failed \notin {"list", "delete"}

\* C18: when retention cleanup has gone through the listing without a
\* failed request, a listed backup is deleted exactly if the time in its
\* name is more than BACKUP_RETENTION_DAYS days before now, and nothing
\* is deleted whose name does not give such a time; with 7 days on
\* 2024-02-11 the backup of 2024-01-01 is deleted and that of 2024-02-10 kept.
C18_RetentionWindow ==
    CleanupCompleted =>
        /\ \A p \in StampedBackups :
             p[1] \in run.listed =>
                /\ p[1] \in run.deleted
                     <=> OlderThan(p[2], run.today, BACKUP_RETENTION_DAYS)
                /\ p[1] \in run.bucket <=> p[1] \notin run.deleted
        /\ \A k \in run.deleted :
             /\ k \in run.listed
             /\ backup_date(k) # None
             /\ OlderThan(backup_date(k)[1], run.today, BACKUP_RETENTION_DAYS)
        /\ (/\ run.today = DateTime(2024, 2, 11, 0, 0, 0)
            /\ BACKUP_RETENTION_DAYS = 7
            /\ {Objects.old, Objects.new} \subseteq run.listed)
               => /\ Objects.old \in run.deleted
                  /\ Objects.new \in run.bucket

\* the example of the claim: 7 days, 2024-02-11, both backups listed
C18_Witness ==
    /\ CleanupCompleted
    /\ run.today = DateTime(2024, 2, 11, 0, 0, 0)
    /\ BACKUP_RETENTION_DAYS = 7
    /\ {Objects.old, Objects.new, Objects.week_old} \subseteq run.listed
    /\ Objects.old \in run.deleted
    /\ Objects.old \notin run.bucket
    /\ {Objects.new, Objects.week_old} \subseteq run.bucket

\* the objects of the model whose key is not {name}_{date}_{time}.{ext}
\* with ext one of cypher and cypher.gz and a date and time that exist
UnparsedKeys == {Objects.two_parts, Objects.other_extension, Objects.no_such_day, Objects.no_extension, Objects.two_extensions}

\* C19: retention cleanup never deletes an object whose key is not of the
\* form {name}_{date}_{time}.{ext}, however old the key makes it look.
C19_UnparsedKeysKept ==
    run.op = "backup" => run.deleted \cap UnparsedKeys = {}

(***************************************************************************)
(* Properties of the best-effort steps of a backup run.                    *)
(***************************************************************************)

\* C20: a failed graph summary does not end the run, which goes on with no
\* summary and so no metadata; and once the upload has succeeded, a failed
\* listing or a failed delete of retention cleanup leaves the result a
\* success carrying the uploaded key.
C20_BestEffortSteps ==
    run.op = "backup" =>
        /\ (run.pc = "exit" /\ run.exit = "raised")
               => run.failed \notin {"summary", "list", "delete"}
        /\ (run.pc = "exit" /\ run.upload = "ok")
               => /\ run.exit = "returned"
                  /\ run.result.success
                  /\ run.result.error = None
                  /\ run.result.remote_key = run.uploaded
                  /\ run.uploaded # None
                  /\ run.uploaded[1] \in run.bucket
        /\ (run.upload # "none" /\ run.summary = None) => run.metadata = None

\* a run without a summary whose cleanup failed at a delete has returned
C20_Witness ==
    /\ run.op = "backup"
    /\ run.pc = "exit"
    /\ run.summary = None
    /\ run.upload = "ok"
    /\ run.failed = "delete"
    /\ run.result.success
    /\ run.result.remote_key = Some(RemoteKey(CompressedName(run.today)))

(***************************************************************************)
(* Properties of the restore wipe.                                         *)
(***************************************************************************)

\* C21: a run in which the drop of one constraint or index failed still
\* drops the other schema objects, deletes the data, replays the script and
\* does not end as a failed restore.
C21_DropFailureSwallowed ==
    (run.op = "wipe" /\ run.pc = "exit" /\ run.drop_failed)
        => /\ ~run.data
           /\ run.replayed
           /\ run.result = "success"
           /\ run.constraints \cup run.indexes \subseteq {run.failed_at}

(***************************************************************************)
(* Properties of the statement parser.  What a script means is said here   *)
(* over the whole list of lines: the lines that count, the places where a  *)
(* statement ends, and the text between two such places.                   *)
(***************************************************************************)
CountedLines(lines) ==
    LET Counts(l) ==
            /\ str_strip(l) # <<>>
            /\ ~(Len(str_strip(l)) >= 2 /\ str_strip(l)[1] = "/" /\ str_strip(l)[2] = "/")
    IN  SelectSeq(lines, Counts)

ExpectedStatements(lines) ==
    LET counted == CountedLines(lines)
        ends == {i \in 1..Len(counted) :
                    str_strip(counted[i])[Len(str_strip(counted[i]))] = ";"}
        EndOf(k) == CHOOSE e \in ends : Cardinality({x \in ends : x < e}) = k - 1
        StartOf(k) == IF k = 1 THEN 1 ELSE EndOf(k - 1) + 1
        Text(a, b) == str_strip(str_join(SubSeq(counted, a, b)))
        Ended(k) == LET t == Text(StartOf(k), EndOf(k))
                    IN  str_strip(SubSeq(t, 1, Len(t) - 1))
        n == Cardinality(ends)
        rest == Text(IF n = 0 THEN 1 ELSE EndOf(n) + 1, Len(counted))
    IN  [k \in 1..n |-> Ended(k)] \o (IF rest # <<>> THEN <<rest>> ELSE <<>>)

\* C22: the parser returns the statements of a script in file order: blank
\* lines and lines that start with '//' once trimmed add nothing, a
\* statement ends with the first line that ends with ';' once trimmed, one
\* ';' is taken off its end and it is trimmed, and what is left after the
\* last line is a last statement if it is not empty.
C22_ParsedStatements ==
    (run.op = "parse" /\ run.pc = "done")
        => run.statements = ExpectedStatements(run.lines)

\* a statement over two lines that ends with ';;', then an unended one
C22_Witness ==
    /\ run.op = "parse"
    /\ run.pc = "done"
    /\ run.lines = <<<<"b", "\n">>, <<"b", ";", ";", "\n">>, <<"b", "\n">>>>
    /\ run.statements = <<<<"b", "\n", "b", ";">>, <<"b">>>>

\* C23: a script written by the export, one creation statement per line
\* with ';' after it, parses back to the same statements in the same order,
\* without the ';'.
C23_ExportParsesBack ==
    (run.op = "parse" /\ run.pc = "done" /\ run.written # None)
        => run.statements = run.written[1]

\* two nodes written and read back, one with a ';' inside a property
C23_Witness ==
    /\ run.op = "parse"
    /\ run.pc = "done"
    /\ run.written =
         Some(<<CreateStatement(<<"A">>, <<"k", ":", " ", "'", ";", "'">>),
                CreateStatement(<<>>, <<>>)>>)
    /\ Len(run.lines) = 2
    /\ run.statements = run.written[1]

(***************************************************************************)
(* Properties of the schedule.                                             *)
(***************************************************************************)

\* C24: compute_next_run returns None, and raises nothing, for settings
\* whose enabled is false or missing, whose cron is empty or missing, or
\* whose cron is not a cron expression.
C24_NoNextRun ==
    (run.op = "next_run" /\ Len(run.results) > 0) =>
        LET enabled == Get(run.settings, "enabled")
            cron == Get(run.settings, "cron")
        IN  (\/ enabled \in {None, Some(FALSE)}
             \/ cron \in {None, Some("")}
             \/ cron = Some("not a cron"))
                => run.results[1] = None

\* an enabled schedule with a malformed expression got None
C24_Witness ==
    /\ run.op = "next_run"
    /\ Get(run.settings, "enabled") = Some(TRUE)
    /\ Get(run.settings, "cron") = Some("not a cron")
    /\ run.results = <<None, None>>

RECURSIVE Resolved(_)
\* the directory entries a path leads through, '..' going one up
Resolved(path) ==
    IF Len(path) = 0 THEN <<>>
    ELSE LET before == Resolved(SubSeq(path, 1, Len(path) - 1))
         IN  IF path[Len(path)] = <<".", ".">>
             THEN (IF Len(before) = 0 THEN <<>> ELSE SubSeq(before, 1, Len(before) - 1))
             ELSE Append(before, path[Len(path)])

\* C26: whatever the backup key, with '..' segments, '/' separators or a
\* leading '/', the path it is downloaded to lies in the restore temp
\* directory.
C26_DownloadInsideTempDir ==
    (run.op = "download path" /\ run.pc = "done")
        => /\ Len(Resolved(run.local_download)) >= Len(RestoreTempDir)
           /\ SubSeq(Resolved(run.local_download), 1, Len(RestoreTempDir)) = RestoreTempDir

(***************************************************************************)
(* Properties of the schedule file.                                        *)
(***************************************************************************)
\* the number of lines a text holds: its line breaks, and one more for
\* characters after the last of them
LineCount(text) ==
    Cardinality({i \in 1..Len(text) : text[i] = "\n"})
        + (IF Len(text) > 0 /\ text[Len(text)] # "\n" THEN 1 ELSE 0)

\* C27: after apply_cron_schedule the schedule file holds one line, the
\* disabled marker when enabled is false or cron is empty and the cron
\* expression followed by the backup command otherwise, and only its owner
\* may read and write it.
C27_OneLineOwnerOnly ==
    (run.op = "apply_cron_schedule" /\ run.pc = "done")
        => /\ LineCount(run.file.content) = 1
           /\ run.file.content =
                (IF Get(run.settings, "enabled") \in {None, Some(FALSE)}
                    \/ Get(run.settings, "cron") \in {None, Some(<<>>)}
                 THEN <<"# Backups disabled", "\n">>
                 ELSE Get(run.settings, "cron")[1] \o <<" ", "BACKUP_COMMAND", "\n">>)
           /\ run.file.mode = "0600"

(***************************************************************************)
(* Properties of the state file.                                           *)
(***************************************************************************)
\* C28: after any sequence of saves the state file holds the known schedule
\* and runtime keys and no other: neither nextRunAt nor a key outside the
\* known set, passed to the save or found by the load before it, is written.
C28_FileHoldsKnownKeys ==
    storeOp.op # "none"
        => /\ config.exists
           /\ DOMAIN config.data =
                {"enabled", "cron", "retentionDays",
                 "lastStatus", "lastRunAt", "lastBackupId", "lastError",
                 "lastRestoreStatus", "restoreStartedAt", "restoreCompletedAt",
                 "lastRestoreId", "lastRestoreError", "restoreStatementsApplied",
                 "restoreTotalStatements", "restorePhase", "restoreProgress"}

\* a save was given nextRunAt and an unknown key, after a load that found an
\* unknown key in the file
C28_Witness ==
    /\ storeOp.op = "save_settings"
    /\ {"nextRunAt", "legacyKey"} \subseteq DOMAIN storeOp.partial
    /\ "legacyKey" \in DOMAIN storeOp.before
    /\ "legacyKey" \notin DOMAIN config.data
    /\ "nextRunAt" \notin DOMAIN config.data

\* C29: load returns a state with every known key and with nextRunAt: the
\* defaults when there is no state file, and the default value for a key
\* the file does not hold.
C29_LoadComplete ==
    storeOp.op = "load_settings"
        => /\ DOMAIN DEFAULT_SETTINGS \cup {"nextRunAt"} \subseteq DOMAIN storeOp.before
           /\ \A k \in DOMAIN DEFAULT_SETTINGS :
                (~config.exists \/ k \notin DOMAIN config.data)
                    => storeOp.before[k] = DEFAULT_SETTINGS[k]

(***************************************************************************)
(* Properties of the order of the steps of one backup run.                 *)
(***************************************************************************)
\* C30: the steps of a backup run come in order and a failed step ends the
\* run: the upload starts only after the export and, when compression is
\* enabled, the compression have succeeded, the retention cleanup only
\* after the upload has succeeded; a run that fails at validation,
\* reachability, export, compression or upload has done no later step and
\* has deleted no remote object.
C30_StepsInOrder ==
    run.op = "backup"
        => /\ run.upload # "none"
                => /\ run.upload_file # "none"
                   /\ run.COMPRESSION_ENABLED => run.upload_file = "compressed_file"
           /\ (run.pc \in {"cleanup", "cleanup loop"} \/ run.listed # {} \/ run.deleted # {})
                => run.upload = "ok"
           /\ run.result.success => run.upload = "ok"
           /\ (run.exit = "returned" /\ ~run.result.success)
                => /\ run.failed \in {"validate", "verify", "export", "compress", "upload"}
                   /\ run.listed = {} /\ run.deleted = {} /\ run.uploaded = None
                   /\ run.failed # "upload" => run.upload = "none"
                   /\ run.failed \in {"validate", "verify", "export"}
                        => run.compressed_file = "absent"
                   /\ run.failed \in {"validate", "verify"}
                        => run.summary = None /\ run.export_file = "absent"
                   /\ (run.failed = "upload" /\ run.COMPRESSION_ENABLED)
                        => run.upload_file = "compressed_file"

\* the upload of a run failed while the bucket holds a backup older than the
\* retention window, and the run ended with that backup still there
C30_Witness ==
    /\ run.op = "backup"
    /\ run.exit = "returned"
    /\ run.failed = "upload"
    /\ run.COMPRESSION_ENABLED
    /\ \E key \in run.bucket : Expired(key, run.today, BACKUP_RETENTION_DAYS)
    /\ run.deleted = {}

(***************************************************************************)
(* Properties of the phases of a restore run.                              *)
(***************************************************************************)
\* how far along a restore the persisted phase is
PhaseRank(phase) ==
    CASE phase = Some("downloading") -> 1
      [] phase = Some("clearing") -> 2
      [] phase = Some("replaying") -> 3
      [] phase \in {Some("completed"), Some("failed")} -> 4
      [] OTHER -> 0

\* the restore worker has written its first status and has not ended
RestoreUnderWay(t) ==
    rw[t].pc \notin {"unborn", "dead", "r_start_load", "r_start_save"}

\* C31: within a restore run the persisted restorePhase only moves forward
\* through downloading, clearing, replaying and then completed or failed:
\* clearing is written after the download, replaying after the statements
\* were parsed and restoreTotalStatements recorded with it, and the phase
\* never goes back during the run.
C31_PhaseMovesForward ==
    [][\A t \in Threads :
         RestoreUnderWay(t)
            => /\ PhaseRank(config'.data["restorePhase"])
                    >= PhaseRank(config.data["restorePhase"])
               /\ (config'.data["restorePhase"] # config.data["restorePhase"]
                   /\ config'.data["restorePhase"] = Some("clearing"))
                    => rw[t].pc = "r_clearing_save"
               /\ (config'.data["restorePhase"] # config.data["restorePhase"]
                   /\ config'.data["restorePhase"] = Some("replaying"))
                    => /\ rw[t].pc = "r_replaying_save"
                       /\ config'.data["restoreTotalStatements"] = Some(rw[t].total)]_vars

(***************************************************************************)
(* Properties of the locks.                                                *)
(***************************************************************************)
\* the locks thread th holds
HeldBy(th) == {lock \in DOMAIN run.holder : run.holder[lock] = th}

\* C32: the store lock is held only while the state file is read or
\* written, and a thread holds neither the store lock nor a controller lock
\* while it makes a database call, a storage call or a (de)compression.
C32_NoLockAcrossExternalCall ==
    run.op = "locks"
        => \A th \in LockThreads :
             /\ run.holder["store"] = th => LockStep(run, th) \in {"read", "write"}
             /\ LockStep(run, th) \in {"database", "storage", "compress"}
                    => HeldBy(th) = {}

\* the restore worker downloads while the backup worker holds the store
\* lock to write the state file
C32_Witness ==
    /\ run.op = "locks"
    /\ LockStep(run, "restore") = "storage"
    /\ run.holder["store"] = "backup"
    /\ LockStep(run, "backup") = "write"
    /\ HeldBy("restore") = {}

C34_WipeAfterParse ==
    [][run'.op = "restore"
         => /\ run'.database # run.database
                => /\ run.pc \in {"drop", "replay"}
                   /\ run.failed = "none"
                   /\ IF SuffixGz(run.backup_key)
                      THEN run.cypher_file = "decompressed" /\ run.decompressed = "complete"
                      ELSE run.cypher_file = "local_download"
                           /\ run.local_download = "complete"
            /\ run'.failed \in {"validate", "verify", "mkdir", "client_error",
                                "other_error", "decompress", "driver", "parse"}
                => run'.database = "intact"]_vars

\* a compressed backup was downloaded, decompressed and parsed, and the
\* database has been wiped
C34_Witness ==
    /\ run.op = "restore"
    /\ SuffixGz(run.backup_key)
    /\ run.database = "wiped"
    /\ run.pc = "replay"

C36_BackupStatusCoherent ==
    (\A t \in Threads : bw[t].pc \notin {"b_start_save", "b_final_save"})
        => /\ config.data["lastStatus"] = Some("completed")
                => /\ config.data["lastBackupId"] \in
                        {Some(<<BACKUP_PREFIX, t>>) : t \in 0..MaxClock}
                   /\ config.data["lastError"] = None
           /\ config.data["lastStatus"] = Some("failed")
                => config.data["lastError"] # None
           /\ config.data["lastStatus"] = Some("running")
                => /\ config.data["lastBackupId"] = None
                   /\ config.data["lastError"] = None

\* a backup failed and its status was written after an operator update had
\* cleared the runtime fields
C36_Witness ==
    /\ config.data["lastStatus"] = Some("failed")
    /\ config.data["lastError"] # None
    /\ config.data["lastRestoreStatus"] = None
    /\ config.data["cron"] = Some("* * * * *")
    /\ \A t \in Threads : bw[t].pc \notin {"b_start_save", "b_final_save"}

\* C37: within a restore run the persisted restoreProgress never decreases
\* and is at most restoreTotalStatements once that is set; after a
\* successful restore restoreProgress, restoreStatementsApplied and
\* restoreTotalStatements are equal.
C37_ProgressMonotone ==
    [][\A t \in Threads :
         RestoreUnderWay(t)
            => /\ config'.data["restoreProgress"][1] >= config.data["restoreProgress"][1]
               /\ config'.data["restoreTotalStatements"] # None
                    => config'.data["restoreProgress"][1]
                         <= config'.data["restoreTotalStatements"][1]
               /\ (rw'[t].pc = "r_clear" /\ rw'[t].result.success)
                    => /\ config'.data["restoreProgress"]
                            = config'.data["restoreTotalStatements"]
                       /\ config'.data["restoreStatementsApplied"]
                            = config'.data["restoreTotalStatements"]]_vars

\* C38: whenever no settings update and no status write is under way, the
\* schedule file agrees with the persisted schedule settings: the persisted
\* cron expression when enabled is true and cron is not empty, the disabled
\* marker otherwise; after every interleaving of operator updates with
\* backup and restore status writes.
C38_ScheduleFileAgrees ==
    (/\ api.pc = "idle"
     /\ \A t \in Threads :
          /\ bw[t].pc \notin {"b_start_save", "b_final_save"}
          /\ rw[t].pc \notin {"r_start_save", "r_clearing_save", "r_replaying_save",
                              "r_ckpt_save", "r_done_save", "r_exc_save",
                              "r_final_save"})
        => crontab =
             IF config.data["enabled"] = Some(TRUE)
                /\ config.data["cron"] \notin {None, Some("")}
             THEN <<config.data["cron"][1], "BACKUP_COMMAND">>
             ELSE <<"# Backups disabled">>

\* C39: the locks never deadlock: a thread that waits for the store lock
\* or a controller lock gets it, and every request and every worker comes
\* to its end, under every interleaving of the API thread and the workers.
C39_NoDeadlock ==
    \A th \in LockThreads :
        /\ (/\ run.op = "locks"
            /\ LockStep(run, th) \in {"lock store", "lock backup", "lock restore"})
               ~> (HeldBy(th) # {})
        /\ (run.op = "locks" /\ run.pc[th] # 0) ~> (run.pc[th] = 0)

\* both workers and the API thread wait for or hold the store lock at once
C39_Witness ==
    /\ run.op = "locks"
    /\ run.holder["store"] = "backup"
    /\ LockStep(run, "restore") = "lock store"
    /\ LockStep(run, "api") = "lock store"

====
